---- MODULE Spec2Model ----
(***************************************************************************)
(* State-machine model of nirikiri's configuration engine: the KDL         *)
(* document wrapper (ConfigDocument), the three view models with their     *)
(* pending-change overlays, and App::update with its Save paths.           *)
(***************************************************************************)
EXTENDS Integers, Sequences, FiniteSets, TLC

VARIABLES
    current_category,     \* App.current_category
    error,                \* App.error : Option<String>
    outputs,              \* OutputViewModel.outputs
    selected_index,       \* OutputViewModel.selected_index
    pending_changes,      \* OutputViewModel.pending_changes (name -> Position)
    bindings,             \* KeybindingsViewModel.bindings
    kb_selected_index,    \* KeybindingsViewModel.selected_index
    kb_pending_changes,   \* KeybindingsViewModel.pending_changes
    search_query,         \* KeybindingsViewModel.search_query
    edit_mode,            \* KeybindingsViewModel.edit_mode : Option<EditMode>
    settings,             \* AppearanceViewModel.settings
    original_settings,    \* AppearanceViewModel.original_settings
    app_pending_changes,  \* AppearanceViewModel.pending_changes
    app_selected_index,   \* AppearanceViewModel.selected_index
    collapsed_sections,   \* AppearanceViewModel.collapsed_sections
    app_edit_mode,        \* AppearanceViewModel.edit_mode : Option<AppearanceEditMode>
    config,               \* App.config : Option<ConfigDocument> (the KdlDocument)
    file,                 \* content of config.kdl on disk (Option)
    backup,               \* content of config.kdl.bak on disk (Option)
    niri_outputs,         \* the outputs the compositor reports over IPC
    last,                 \* the message processed by the last step and its outcome
    steps,                \* how many edits and file-writing saves have been made
    ret                   \* value returned by the last pure-function call

outVars == <<outputs, selected_index, pending_changes>>
kbVars  == <<bindings, kb_selected_index, kb_pending_changes, search_query, edit_mode>>
appVars == <<settings, original_settings, app_pending_changes, app_selected_index,
             collapsed_sections, app_edit_mode>>
docVars == <<config, file, backup>>
vars == <<current_category, error, outVars, kbVars, appVars, docVars,
          niri_outputs, last, steps, ret>>

----------------------------------------------------------------------------
(* Bounds of the exploration *)

PosBound == 1          \* positions are kept within -PosBound..PosBound per axis
MaxSteps == 4          \* edits and file-writing saves in one run of the application
MaxKbSteps == 3        \* keybinding edits and file-writing saves in one run of the editor
MaxChanges == 5        \* longest pending list handed to effective_bindings
MaxNodes == 3          \* most top-level nodes of a document handed to set_output_position
MaxPending == 2        \* longest keybinding change list the user builds up
MaxGaps == 17          \* largest gaps value the user increments to
MaxAppSelect == 1      \* the user moves the appearance selection down this far

----------------------------------------------------------------------------
(* Option values: None is the empty sequence, Some(v) the one-element one *)

None == <<>>
Some(v) == <<v>>
IsSome(o) == o # <<>>
Unwrap(o) == o[1]

Min(S) == CHOOSE m \in S : \A n \in S : m <= n

Abs(n) == IF n < 0 THEN 0 - n ELSE n

\* Rust's integer division truncates toward zero
TruncDiv(a, b) == IF a >= 0 THEN a \div b ELSE 0 - ((0 - a) \div b)

RECURSIVE SeqOfSet(_)
SeqOfSet(S) == IF S = {} THEN <<>>
               ELSE LET m == CHOOSE e \in S : TRUE IN <<m>> \o SeqOfSet(S \ {m})

\* every ordering of a finite set, as sequences (HashMap iteration order)
Orders(S) == { s \in [1..Cardinality(S) -> S] : \A i, j \in 1..Cardinality(S) : i # j => s[i] # s[j] }

Position(x, y) == [x |-> x, y |-> y]
Size(w, h) == [width |-> w, height |-> h]

----------------------------------------------------------------------------
(* ConfigDocument: the document is the sequence of its top-level nodes.    *)
(* A top-level node is [name, arg, children]: arg is the first positional  *)
(* argument when it is a string, children the optional child block.        *)
(* A child of an output node is [name, x, y] with optional integer x, y.   *)

PosNode(position) == [name |-> "position", x |-> Some(position.x), y |-> Some(position.y)]

\* a lookup that takes the first output node, whatever output it names
find_output_node_any_name(doc, name) ==
    LET hits == { i \in 1..Len(doc) : doc[i].name \in {"output", "/-output"} }
    IN IF hits = {} THEN None
       ELSE Some([idx |-> Min(hits), commented |-> doc[Min(hits)].name = "/-output"])

\* ConfigDocument::find_output_node
find_output_node(doc, name) ==
    LET hits == { i \in 1..Len(doc) :
                    /\ doc[i].name \in {"output", "/-output"}
                    /\ doc[i].arg = Some(name) }
    IN IF hits = {} THEN None
       ELSE Some([idx |-> Min(hits), commented |-> doc[Min(hits)].name = "/-output"])

\* index of the first child called "position", 0 when there is none
position_idx(children) ==
    LET hits == { i \in 1..Len(children) : children[i].name = "position" }
    IN IF hits = {} THEN 0 ELSE Min(hits)

\* ConfigDocument::get_output_position
get_output_position(doc, name) ==
    LET found == find_output_node(doc, name) IN
    IF ~IsSome(found) THEN None
    ELSE LET node == doc[Unwrap(found).idx] IN
         IF ~IsSome(node.children) THEN None
         ELSE LET children == Unwrap(node.children)
                  p == position_idx(children) IN
              IF p = 0 THEN None
              ELSE Some(Position(IF IsSome(children[p].x) THEN Unwrap(children[p].x) ELSE 0,
                                 IF IsSome(children[p].y) THEN Unwrap(children[p].y) ELSE 0))

\* a setter that adds a position child without looking for an existing one
set_output_position_adding_child(doc, name, position) ==
    LET found == find_output_node(doc, name) IN
    IF IsSome(found)
    THEN LET idx == Unwrap(found).idx
             node == doc[idx]
             children == IF IsSome(node.children) THEN Unwrap(node.children) ELSE <<>>
         IN [doc EXCEPT ![idx] = [name |-> "output", arg |-> node.arg,
                                  children |-> Some(Append(children, PosNode(position)))]]
    ELSE Append(doc, [name |-> "output", arg |-> Some(name),
                      children |-> Some(<<PosNode(position)>>)])

\* a setter that leaves a disabled node alone and appends a new node instead
set_output_position_appending(doc, name, position) ==
    LET found == find_output_node(doc, name) IN
    IF IsSome(found) /\ ~Unwrap(found).commented
    THEN LET idx == Unwrap(found).idx
             node == doc[idx]
             children == IF IsSome(node.children) THEN Unwrap(node.children) ELSE <<>>
             p == position_idx(children)
             newChildren == IF p # 0 THEN [children EXCEPT ![p] = PosNode(position)]
                            ELSE Append(children, PosNode(position))
         IN [doc EXCEPT ![idx] = [name |-> "output", arg |-> node.arg,
                                  children |-> Some(newChildren)]]
    ELSE Append(doc, [name |-> "output", arg |-> Some(name),
                      children |-> Some(<<PosNode(position)>>)])

\* ConfigDocument::set_output_position
set_output_position(doc, name, position) ==
    LET found == find_output_node(doc, name) IN
    IF IsSome(found)
    THEN LET idx == Unwrap(found).idx
             node == doc[idx]
             children == IF IsSome(node.children) THEN Unwrap(node.children) ELSE <<>>
             p == position_idx(children)
             newChildren == IF p # 0 THEN [children EXCEPT ![p] = PosNode(position)]
                            ELSE Append(children, PosNode(position))
         IN [doc EXCEPT ![idx] = [name |-> "output", arg |-> node.arg,
                                  children |-> Some(newChildren)]]
    ELSE Append(doc, [name |-> "output", arg |-> Some(name),
                      children |-> Some(<<PosNode(position)>>)])

\* config::parser::get_configured_positions
get_configured_positions(doc) ==
    LET idxs == { i \in 1..Len(doc) :
                    /\ doc[i].name \in {"output", "/-output"}
                    /\ IsSome(doc[i].arg)
                    /\ IsSome(get_output_position(doc, Unwrap(doc[i].arg))) }
        RECURSIVE collect(_)
        collect(i) == IF i > Len(doc) THEN <<>>
                      ELSE (IF i \in idxs
                            THEN <<[name |-> Unwrap(doc[i].arg),
                                    position |-> Unwrap(get_output_position(doc, Unwrap(doc[i].arg)))]>>
                            ELSE <<>>) \o collect(i + 1)
    IN collect(1)

\* a file that a failed write has truncated holds the empty document
Truncated == <<>>

\* a save that writes the file although the backup copy failed
save_despite_backup(doc, f, b) ==
    LET copyFail == IF IsSome(f)
                    THEN { [ok |-> TRUE, err |-> "backup", file |-> Some(doc), backup |-> b2] :
                              b2 \in {b, Some(Truncated)} }
                    ELSE {}
        b1 == IF IsSome(f) THEN f ELSE b
    IN copyFail \cup { [ok |-> TRUE, err |-> "none", file |-> Some(doc), backup |-> b1] }

\* ConfigDocument::save: the outcomes the filesystem allows. The backup copy
\* is taken only when the file exists; either filesystem call may fail.
save(doc, f, b) ==
    LET copyFail == IF IsSome(f)
                    THEN { [ok |-> FALSE, err |-> "backup", file |-> f, backup |-> b2] :
                              b2 \in {b, Some(Truncated)} }
                    ELSE {}
        b1 == IF IsSome(f) THEN f ELSE b
        writeFail == { [ok |-> FALSE, err |-> "write", file |-> f2, backup |-> b1] :
                          f2 \in {f, Some(Truncated)} }
        writeOk == { [ok |-> TRUE, err |-> "none", file |-> Some(doc), backup |-> b1] }
    IN copyFail \cup writeFail \cup writeOk

\* ConfigDocument::load: reading a missing file fails
load(f) == f

RECURSIVE write_positions_doc(_, _, _)
\* config::writer::write_positions, the loop over the map in iteration order
write_positions_doc(doc, positions, order) ==
    IF order = <<>> THEN doc
    ELSE write_positions_doc(set_output_position(doc, order[1], positions[order[1]]),
                             positions, Tail(order))

----------------------------------------------------------------------------
(* Keybindings.  A string that '+' or ' ' splits is kept as the sequence   *)
(* of its pieces: a combo "Mod+Shift+T" is <<"Mod", "Shift", "T">>, the    *)
(* empty string is <<"">> as a combo and <<>> as a command line.  A KDL    *)
(* value is [t, v] with t its type and v its content: the words of a       *)
(* string, <<n>> for an integer, <<b>> for a boolean.                      *)

KdlString(words) == [t |-> "String", v |-> words]
KdlInteger(n) == [t |-> "Integer", v |-> <<n>>]
KdlBool(b) == [t |-> "Bool", v |-> <<b>>]

\* the words that str::parse::<i64> accepts, and their values
IntWords == {"1", "2"}
IntOf(word) == IF word = "1" THEN 1 ELSE 2

\* impl Display for BindingArg, as words
arg_words(a) ==
    CASE a.t = "Integer" -> <<IF a.v[1] = 1 THEN "1" ELSE "2">>
      [] a.t = "Bool" -> <<IF a.v[1] THEN "true" ELSE "false">>
      [] OTHER -> a.v

\* str::to_lowercase on the modifier keywords
to_lowercase(s) ==
    CASE s \in {"Mod", "mod", "MOD"} -> "mod"
      [] s \in {"Super", "super"} -> "super"
      [] s \in {"Logo", "logo"} -> "logo"
      [] s \in {"Ctrl", "ctrl"} -> "ctrl"
      [] s \in {"Control", "control"} -> "control"
      [] s \in {"Shift", "shift"} -> "shift"
      [] s \in {"Alt", "alt"} -> "alt"
      [] s = "T" -> "t"
      [] s = "Q" -> "q"
      [] s = "F" -> "f"
      [] OTHER -> s

NoModifiers == [mod_key |-> FALSE, ctrl |-> FALSE, shift |-> FALSE, alt |-> FALSE]

\* Modifiers::parse
Modifiers_parse(combo) ==
    LET n == Len(combo)
        low == { to_lowercase(combo[i]) : i \in 1..(n - 1) }
    IN [modifiers |-> [mod_key |-> low \cap {"mod", "super", "logo"} # {},
                       ctrl    |-> low \cap {"ctrl", "control"} # {},
                       shift   |-> "shift" \in low,
                       alt     |-> "alt" \in low],
        key |-> combo[n]]

\* impl Display for Modifiers, as the pieces that are joined with '+'
Modifiers_parts(m) ==
    (IF m.mod_key THEN <<"Mod">> ELSE <<>>) \o (IF m.ctrl THEN <<"Ctrl">> ELSE <<>>)
    \o (IF m.shift THEN <<"Shift">> ELSE <<>>) \o (IF m.alt THEN <<"Alt">> ELSE <<>>)

\* Keybinding::combo
combo(binding) == Modifiers_parts(binding.modifiers) \o <<binding.key>>

NoProperties == [repeat |-> None, cooldown_ms |-> None, allow_when_locked |-> None]

Spawn(args)      == [kind |-> "Spawn", name |-> "", args |-> args]
SpawnSh(cmd)     == [kind |-> "SpawnSh", name |-> "", args |-> <<cmd>>]
Simple(name)     == [kind |-> "Simple", name |-> name, args |-> <<>>]
WithArg(name, a) == [kind |-> "WithArg", name |-> name, args |-> <<a>>]

\* keybindings_writer::create_action_node (positional entries only)
create_action_node(action) ==
    CASE action.kind = "Spawn"   -> [name |-> "spawn", args |-> action.args]
      [] action.kind = "SpawnSh" -> [name |-> "spawn-sh", args |-> action.args]
      [] action.kind = "Simple"  -> [name |-> action.name, args |-> <<>>]
      [] OTHER                   -> [name |-> action.name, args |-> action.args]

\* keybindings_writer::create_keybinding_node
create_keybinding_node(binding) ==
    [name |-> combo(binding),
     props |-> binding.properties,
     children |-> Some(<<create_action_node(binding.action)>>)]

\* the node "Mod+Key { action; }" of a binds block
Node3(modifier, key, action) ==
    [name |-> <<modifier, key>>, props |-> NoProperties,
     children |-> Some(<<[name |-> action, args |-> <<>>]>>)]

\* keybindings_parser::parse_binding_action
parse_binding_action(node) ==
    IF ~IsSome(node.children) \/ Unwrap(node.children) = <<>> THEN None
    ELSE LET a == Unwrap(node.children)[1] IN
         CASE a.name = "spawn" ->
                  LET args == SelectSeq(a.args, LAMBDA e : e.t = "String")
                  IN IF args = <<>> THEN None ELSE Some(Spawn(args))
           [] a.name = "spawn-sh" ->
                  IF a.args # <<>> /\ a.args[1].t = "String"
                  THEN Some(SpawnSh(a.args[1])) ELSE None
           [] OTHER ->
                  IF a.args = <<>> THEN Some(Simple(a.name))
                  ELSE IF a.args[1].t \in {"Integer", "String", "Bool"}
                       THEN Some(WithArg(a.name, a.args[1]))
                       ELSE Some(Simple(a.name))

\* the first piece of a node name that starts with "/-"
CommentedPieces == {"/-Mod", "/-T", "/-Q"}

\* keybindings_parser::parse_single_binding
parse_single_binding(node, index) ==
    IF node.name[1] \in CommentedPieces THEN None
    ELSE LET mk == Modifiers_parse(node.name)
             action == parse_binding_action(node) IN
         IF ~IsSome(action) THEN None
         ELSE Some([modifiers |-> mk.modifiers, key |-> mk.key,
                    properties |-> node.props, action |-> Unwrap(action),
                    kdl_index |-> Some(index)])

\* index of the first top-level node called "binds", 0 when there is none
binds_idx(doc) ==
    LET hits == { i \in 1..Len(doc) : doc[i].name = "binds" }
    IN IF hits = {} THEN 0 ELSE Min(hits)

\* keybindings_parser::parse_keybindings (indices count from 0 as in the code)
parse_keybindings(doc) ==
    LET b == binds_idx(doc) IN
    IF b = 0 \/ ~IsSome(doc[b].children) THEN <<>>
    ELSE LET children == Unwrap(doc[b].children)
             RECURSIVE collect(_)
             collect(i) == IF i > Len(children) THEN <<>>
                           ELSE parse_single_binding(children[i], i - 1) \o collect(i + 1)
         IN collect(1)

\* two bindings with the same modifiers, key, properties and action
SameBinding(a, b) ==
    /\ a.modifiers = b.modifiers /\ a.key = b.key
    /\ a.properties = b.properties /\ a.action = b.action

Add(binding)           == [kind |-> "Add", index |-> 0, new |-> Some(binding)]
Modify(index, binding) == [kind |-> "Modify", index |-> index, new |-> Some(binding)]
Delete(index)          == [kind |-> "Delete", index |-> index, new |-> None]

\* a comparator that puts the Delete entries in ascending order of index
sorts_before_ascending(a, b) ==
    CASE a.kind = "Delete" /\ b.kind = "Delete" -> a.index < b.index
      [] a.kind = "Delete" -> TRUE
      [] b.kind = "Delete" -> FALSE
      [] a.kind = "Modify" /\ b.kind = "Modify" -> a.index < b.index
      [] a.kind = "Modify" -> TRUE
      [] b.kind = "Modify" -> FALSE
      [] OTHER -> FALSE

\* the comparator given to sort_by in write_keybindings: a sorts strictly before b
sorts_before(a, b) ==
    CASE a.kind = "Delete" /\ b.kind = "Delete" -> b.index < a.index
      [] a.kind = "Delete" -> TRUE
      [] b.kind = "Delete" -> FALSE
      [] a.kind = "Modify" /\ b.kind = "Modify" -> a.index < b.index
      [] a.kind = "Modify" -> TRUE
      [] b.kind = "Modify" -> FALSE
      [] OTHER -> FALSE

RECURSIVE insert_sorted(_, _)
\* slice::sort_by is stable: c goes after every element it does not sort before
insert_sorted(sorted, c) ==
    IF sorted = <<>> THEN <<c>>
    ELSE IF sorts_before(c, Head(sorted)) THEN <<c>> \o sorted
         ELSE <<Head(sorted)>> \o insert_sorted(Tail(sorted), c)

RECURSIVE sorted_changes(_)
\* write_keybindings: sorted_changes after sort_by
sorted_changes(changes) ==
    IF changes = <<>> THEN <<>>
    ELSE insert_sorted(sorted_changes(SubSeq(changes, 1, Len(changes) - 1)),
                       changes[Len(changes)])

\* Vec::remove at a 0-based index
remove_at(s, index) == SubSeq(s, 1, index) \o SubSeq(s, index + 2, Len(s))

\* write_keybindings: the body of the loop over sorted_changes
apply_change(children, c) ==
    CASE c.kind = "Delete" ->
             IF c.index < Len(children) THEN remove_at(children, c.index) ELSE children
      [] c.kind = "Modify" ->
             IF c.index < Len(children)
             THEN [children EXCEPT ![c.index + 1] = create_keybinding_node(Unwrap(c.new))]
             ELSE children
      [] OTHER -> Append(children, create_keybinding_node(Unwrap(c.new)))

RECURSIVE apply_changes_in_order(_, _)
apply_changes_in_order(children, cs) ==
    IF cs = <<>> THEN children
    ELSE apply_changes_in_order(apply_change(children, Head(cs)), Tail(cs))

\* a writer that opens a binds block at the end of a document that has none
write_keybindings_doc_creating_block(doc, changes) ==
    LET b == binds_idx(doc)
        children == IF b # 0 /\ IsSome(doc[b].children) THEN Unwrap(doc[b].children) ELSE <<>>
        block == [name |-> "binds", arg |-> None,
                  children |-> Some(apply_changes_in_order(children, sorted_changes(changes)))]
    IN [ok |-> TRUE,
        doc |-> IF b = 0 THEN Append(doc, block) ELSE [doc EXCEPT ![b] = block]]

\* keybindings_writer::write_keybindings up to the call of config.save():
\* [ok, doc], ok = FALSE when there is no binds block
write_keybindings_doc(doc, changes) ==
    LET b == binds_idx(doc) IN
    IF b = 0 THEN [ok |-> FALSE, doc |-> doc]
    ELSE LET children == IF IsSome(doc[b].children) THEN Unwrap(doc[b].children) ELSE <<>>
         IN [ok |-> TRUE,
             doc |-> [doc EXCEPT ![b].children =
                        Some(apply_changes_in_order(children, sorted_changes(changes)))]]

\* an effective list in which the first Modify of an index wins
effective_bindings_first_modify(base, pending) ==
    LET deleted == { pending[i].index : i \in { j \in 1..Len(pending) : pending[j].kind = "Delete" } }
        mods(idx) == { j \in 1..Len(pending) : pending[j].kind = "Modify" /\ pending[j].index = idx }
        kept == SelectSeq([i \in 1..Len(base) |-> i], LAMBDA i : (i - 1) \notin deleted)
        adds == SelectSeq(pending, LAMBDA c : c.kind = "Add")
    IN [k \in 1..Len(kept) |->
           IF mods(kept[k] - 1) # {}
           THEN [binding |-> Unwrap(pending[Min(mods(kept[k] - 1))].new),
                 original_index |-> Some(kept[k] - 1), status |-> "Modified"]
           ELSE [binding |-> base[kept[k]], original_index |-> Some(kept[k] - 1),
                 status |-> "Unchanged"]]
       \o [j \in 1..Len(adds) |-> [binding |-> Unwrap(adds[j].new), original_index |-> None,
                                     status |-> "Added"]]

\* an effective list in which a Delete removes the entry at that position of
\* what the Delete entries before it have left
effective_bindings_sequential(base, pending) ==
    LET mods(idx) == { j \in 1..Len(pending) : pending[j].kind = "Modify" /\ pending[j].index = idx }
        entry(i) == IF mods(i - 1) # {}
                    THEN [binding |-> Unwrap(pending[CHOOSE j \in mods(i - 1) :
                                                        \A k \in mods(i - 1) : k <= j].new),
                          original_index |-> Some(i - 1), status |-> "Modified"]
                    ELSE [binding |-> base[i], original_index |-> Some(i - 1),
                          status |-> "Unchanged"]
        RECURSIVE remove(_, _)
        remove(list, j) ==
            IF j > Len(pending) THEN list
            ELSE IF pending[j].kind = "Delete" /\ pending[j].index < Len(list)
                 THEN remove(SubSeq(list, 1, pending[j].index)
                             \o SubSeq(list, pending[j].index + 2, Len(list)), j + 1)
                 ELSE remove(list, j + 1)
        adds == SelectSeq(pending, LAMBDA c : c.kind = "Add")
    IN remove([i \in 1..Len(base) |-> entry(i)], 1)
       \o [j \in 1..Len(adds) |-> [binding |-> Unwrap(adds[j].new), original_index |-> None,
                                     status |-> "Added"]]

\* KeybindingsViewModel::effective_bindings
effective_bindings(base, pending) ==
    LET deleted == { pending[i].index : i \in { j \in 1..Len(pending) : pending[j].kind = "Delete" } }
        mods(idx) == { j \in 1..Len(pending) : pending[j].kind = "Modify" /\ pending[j].index = idx }
        \* collecting into a HashMap keeps the last value inserted for a key
        modified(idx) == Unwrap(pending[CHOOSE j \in mods(idx) : \A k \in mods(idx) : k <= j].new)
        RECURSIVE walk(_)
        walk(i) == IF i > Len(base) THEN <<>>
                   ELSE (IF (i - 1) \in deleted THEN <<>>
                         ELSE IF mods(i - 1) # {}
                              THEN <<[binding |-> modified(i - 1), original_index |-> Some(i - 1),
                                      status |-> "Modified"]>>
                              ELSE <<[binding |-> base[i], original_index |-> Some(i - 1),
                                      status |-> "Unchanged"]>>) \o walk(i + 1)
        RECURSIVE added(_)
        added(j) == IF j > Len(pending) THEN <<>>
                    ELSE (IF pending[j].kind = "Add"
                          THEN <<[binding |-> Unwrap(pending[j].new), original_index |-> None,
                                  status |-> "Added"]>>
                          ELSE <<>>) \o added(j + 1)
    IN walk(1) \o added(1)

\* BindingAction::short_description, as the lowercased words it shows
\* (queries are whole words; paths and truncation are not modelled)
short_description(action) ==
    CASE action.kind = "Spawn" ->
             IF action.args = <<>> THEN <<"spawn">>
             ELSE action.args[1].v \o (IF Len(action.args) > 1 THEN <<"...">> ELSE <<>>)
      [] action.kind = "SpawnSh" -> action.args[1].v
      [] action.kind = "Simple" -> <<action.name>>
      [] OTHER -> <<action.name>> \o arg_words(action.args[1])

\* Keybinding::matches_search for a query that is one word
matches_search(binding, query) ==
    LET c == combo(binding)
        d == short_description(binding.action) IN
    \/ \E i \in 1..Len(c) : to_lowercase(c[i]) = to_lowercase(query)
    \/ \E i \in 1..Len(d) : to_lowercase(d[i]) = to_lowercase(query)

\* KeybindingsViewModel::filtered_bindings
filtered_bindings(base, pending, query) ==
    IF query = "" THEN effective_bindings(base, pending)
    ELSE SelectSeq(effective_bindings(base, pending),
                   LAMBDA eb : matches_search(eb.binding, query))

\* EditMode::action_to_parts
action_to_parts(action) ==
    LET RECURSIVE join(_)
        join(args) == IF args = <<>> THEN <<>> ELSE Head(args).v \o join(Tail(args))
    IN CASE action.kind = "Spawn"   -> [action_type |-> "Spawn", action_value |-> join(action.args)]
         [] action.kind = "SpawnSh" -> [action_type |-> "SpawnSh", action_value |-> action.args[1].v]
         [] action.kind = "Simple"  -> [action_type |-> "BuiltIn", action_value |-> <<action.name>>]
         [] OTHER -> [action_type |-> "BuiltIn",
                      action_value |-> <<action.name>> \o arg_words(action.args[1])]

\* EditMode::from_binding
from_binding(index, binding) ==
    LET parts == action_to_parts(binding.action) IN
    [original_index |-> index, is_new |-> FALSE, key_combo |-> combo(binding),
     action_type |-> parts.action_type, action_value |-> parts.action_value,
     repeat |-> binding.properties.repeat,
     allow_when_locked |-> binding.properties.allow_when_locked]

\* EditMode::new_binding
new_binding ==
    [original_index |-> 0, is_new |-> TRUE, key_combo |-> <<"">>,
     action_type |-> "Spawn", action_value |-> <<>>,
     repeat |-> None, allow_when_locked |-> None]

\* parse_command_args on words without quotes: one argument per word
parse_command_args(words) == [i \in 1..Len(words) |-> KdlString(<<words[i]>>)]

\* EditMode::build_action
build_action(em) ==
    LET value == em.action_value IN
    IF value = <<>> THEN None
    ELSE CASE em.action_type = "Spawn" -> Some(Spawn(parse_command_args(value)))
           [] em.action_type = "SpawnSh" -> Some(SpawnSh(KdlString(value)))
           [] OTHER ->
                  IF Len(value) = 1 THEN Some(Simple(value[1]))
                  ELSE LET arg_str == Tail(value)
                           arg == IF Len(arg_str) = 1 /\ arg_str[1] \in IntWords
                                  THEN KdlInteger(IntOf(arg_str[1]))
                                  ELSE IF arg_str \in {<<"true">>, <<"false">>}
                                       THEN KdlBool(arg_str = <<"true">>)
                                       ELSE KdlString(arg_str)
                       IN Some(WithArg(value[1], arg))

\* EditMode::to_keybinding
to_keybinding(em) ==
    IF em.key_combo = <<"">> \/ em.action_value = <<>> THEN None
    ELSE LET action == build_action(em)
             mk == Modifiers_parse(em.key_combo) IN
         IF ~IsSome(action) THEN None
         ELSE Some([modifiers |-> mk.modifiers, key |-> mk.key,
                    properties |-> [repeat |-> em.repeat, cooldown_ms |-> None,
                                    allow_when_locked |-> em.allow_when_locked],
                    action |-> Unwrap(action), kdl_index |-> None])

----------------------------------------------------------------------------
(* Appearance.  A node below the layout block is [name, args, entries,     *)
(* children]: the positional arguments, the named properties as [k, val]   *)
(* pairs and the optional child block.                                     *)

Solid(c) == [kind |-> "Solid", color |-> c, from |-> "", to |-> "",
             angle |-> None, relative_to |-> None, color_space |-> None]
Gradient(from, to, angle, relative_to, color_space) ==
    [kind |-> "Gradient", color |-> "", from |-> from, to |-> to,
     angle |-> angle, relative_to |-> relative_to, color_space |-> color_space]

\* impl Default for FocusRingSettings
DefaultFocusRing ==
    [off |-> FALSE, width |-> 4, active_color |-> Solid("#7fc8ff"),
     inactive_color |-> Solid("#505050"), active_gradient |-> None, inactive_gradient |-> None]

\* impl Default for BorderSettings
DefaultBorder ==
    [off |-> TRUE, width |-> 4, active_color |-> Solid("#ffc87f"),
     inactive_color |-> Solid("#505050"), urgent_color |-> Some(Solid("#9b0000")),
     active_gradient |-> None, inactive_gradient |-> None]

\* impl Default for ShadowSettings
DefaultShadow ==
    [on |-> FALSE, draw_behind_window |-> FALSE, softness |-> 30, spread |-> 5,
     offset_x |-> 0, offset_y |-> 5, color |-> Solid("#0007")]

\* StrutsSettings::default
DefaultStruts == [left |-> None, right |-> None, top |-> None, bottom |-> None]

\* impl Default for AppearanceSettings
DefaultSettings ==
    [gaps |-> 16, center_focused_column |-> "never", focus_ring |-> DefaultFocusRing,
     border |-> DefaultBorder, shadow |-> DefaultShadow, struts |-> DefaultStruts]

Node(name, args, entries, children) ==
    [name |-> name, args |-> args, entries |-> entries, children |-> children]

\* index of the first node with that name, 0 when there is none
node_idx(nodes, name) ==
    LET hits == { i \in 1..Len(nodes) : nodes[i].name = name }
    IN IF hits = {} THEN 0 ELSE Min(hits)

\* KdlNode::get(0) when it is of type t
arg0(node, t) ==
    IF node.args # <<>> /\ node.args[1].t = t THEN Some(node.args[1].v) ELSE None

\* KdlNode::get(key) when it is of type t
prop(node, key, t) ==
    LET hits == { i \in 1..Len(node.entries) : node.entries[i].k = key }
    IN IF hits # {} /\ node.entries[Min(hits)].val.t = t
       THEN Some(node.entries[Min(hits)].val.v) ELSE None

\* appearance_writer::remove_node
remove_node(children, name) == SelectSeq(children, LAMBDA n : n.name # name)

\* appearance_writer::update_or_add_simple_value
update_or_add_simple_value(children, name, value) ==
    LET i == node_idx(children, name) IN
    IF i # 0 THEN [children EXCEPT ![i] = Node(name, <<value>>, <<>>, children[i].children)]
    ELSE Append(children, Node(name, <<value>>, <<>>, None))

\* appearance_writer::update_toggle_node
update_toggle_node(children, name, enabled) ==
    LET exists == node_idx(children, name) # 0 IN
    IF enabled /\ ~exists THEN Append(children, Node(name, <<>>, <<>>, None))
    ELSE IF ~enabled /\ exists THEN remove_node(children, name)
    ELSE children

\* appearance_writer::update_gradient
update_gradient(children, name, gradient) ==
    IF gradient.kind # "Gradient" THEN children
    ELSE Append(remove_node(children, name),
                Node(name, <<>>,
                     <<[k |-> "from", val |-> KdlString(<<gradient.from>>)],
                       [k |-> "to", val |-> KdlString(<<gradient.to>>)]>>
                     \o (IF IsSome(gradient.angle)
                         THEN <<[k |-> "angle", val |-> KdlInteger(Unwrap(gradient.angle))]>>
                         ELSE <<>>)
                     \o (IF IsSome(gradient.relative_to)
                         THEN <<[k |-> "relative-to", val |-> KdlString(gradient.relative_to)]>>
                         ELSE <<>>)
                     \o (IF IsSome(gradient.color_space)
                         THEN <<[k |-> "in", val |-> KdlString(gradient.color_space)]>>
                         ELSE <<>>),
                     None))

\* appearance_writer::update_color
update_color(children, name, color) ==
    IF color.kind = "Solid"
    THEN update_or_add_simple_value(children, name, KdlString(<<color.color>>))
    ELSE update_gradient(children, name, color)

\* appearance_writer::update_offset
update_offset(children, x, y) ==
    Append(remove_node(children, "offset"),
           Node("offset", <<>>, <<[k |-> "x", val |-> KdlInteger(x)],
                                  [k |-> "y", val |-> KdlInteger(y)]>>, None))

\* appearance_writer::update_optional_value
update_optional_value(children, name, value) ==
    IF IsSome(value) THEN update_or_add_simple_value(children, name, KdlInteger(Unwrap(value)))
    ELSE remove_node(children, name)

\* "if let Some(gradient) = ... { update_gradient } else { remove_node }"
update_optional_gradient(children, name, gradient) ==
    IF IsSome(gradient) THEN update_gradient(children, name, Unwrap(gradient))
    ELSE remove_node(children, name)

\* the find-or-create of a named block that opens each update_* function:
\* the block's children as they are, and the parent with the new children
block_children(parent, name) ==
    LET i == node_idx(parent, name) IN
    IF i # 0 /\ IsSome(parent[i].children) THEN Unwrap(parent[i].children) ELSE <<>>

with_block(parent, name, children) ==
    LET i == node_idx(parent, name) IN
    IF i # 0 THEN [parent EXCEPT ![i].children = Some(children)]
    ELSE Append(parent, Node(name, <<>>, <<>>, Some(children)))

\* appearance_writer::update_focus_ring
update_focus_ring(parent, fr) ==
    LET c0 == block_children(parent, "focus-ring")
        c1 == update_toggle_node(c0, "off", fr.off)
        c2 == update_or_add_simple_value(c1, "width", KdlInteger(fr.width))
        c3 == update_color(c2, "active-color", fr.active_color)
        c4 == update_color(c3, "inactive-color", fr.inactive_color)
        c5 == update_optional_gradient(c4, "active-gradient", fr.active_gradient)
        c6 == update_optional_gradient(c5, "inactive-gradient", fr.inactive_gradient)
    IN with_block(parent, "focus-ring", c6)

\* appearance_writer::update_border
update_border(parent, bs) ==
    LET c0 == block_children(parent, "border")
        c1 == IF bs.off THEN remove_node(update_toggle_node(c0, "off", TRUE), "on")
              ELSE remove_node(update_toggle_node(c0, "on", TRUE), "off")
        c2 == update_or_add_simple_value(c1, "width", KdlInteger(bs.width))
        c3 == update_color(c2, "active-color", bs.active_color)
        c4 == update_color(c3, "inactive-color", bs.inactive_color)
        c5 == IF IsSome(bs.urgent_color)
              THEN update_color(c4, "urgent-color", Unwrap(bs.urgent_color))
              ELSE remove_node(c4, "urgent-color")
        c6 == update_optional_gradient(c5, "active-gradient", bs.active_gradient)
        c7 == update_optional_gradient(c6, "inactive-gradient", bs.inactive_gradient)
    IN with_block(parent, "border", c7)

\* appearance_writer::update_shadow
update_shadow(parent, sh) ==
    LET c0 == block_children(parent, "shadow")
        c1 == update_toggle_node(c0, "on", sh.on)
        c2 == IF sh.draw_behind_window
              THEN update_or_add_simple_value(c1, "draw-behind-window", KdlBool(TRUE))
              ELSE remove_node(c1, "draw-behind-window")
        c3 == update_or_add_simple_value(c2, "softness", KdlInteger(sh.softness))
        c4 == update_or_add_simple_value(c3, "spread", KdlInteger(sh.spread))
        c5 == update_offset(c4, sh.offset_x, sh.offset_y)
        c6 == update_color(c5, "color", sh.color)
    IN with_block(parent, "shadow", c6)

\* appearance_writer::update_struts
update_struts(parent, st) ==
    LET c0 == block_children(parent, "struts")
        c1 == update_optional_value(c0, "left", st.left)
        c2 == update_optional_value(c1, "right", st.right)
        c3 == update_optional_value(c2, "top", st.top)
        c4 == update_optional_value(c3, "bottom", st.bottom)
    IN with_block(parent, "struts", c4)

\* appearance_writer::write_appearance up to the call of config.save()
write_appearance_doc(doc, s) ==
    LET i == node_idx(doc, "layout")
        c0 == IF i # 0 /\ IsSome(doc[i].children) THEN Unwrap(doc[i].children) ELSE <<>>
        c1 == update_or_add_simple_value(c0, "gaps", KdlInteger(s.gaps))
        c2 == update_or_add_simple_value(c1, "center-focused-column",
                                         KdlString(<<s.center_focused_column>>))
        c3 == update_focus_ring(c2, s.focus_ring)
        c4 == update_border(c3, s.border)
        c5 == update_shadow(c4, s.shadow)
        c6 == update_struts(c5, s.struts)
    IN IF i # 0 THEN [doc EXCEPT ![i].children = Some(c6)]
       ELSE Append(doc, [name |-> "layout", arg |-> None, children |-> Some(c6)])

\* appearance_parser::parse_color_value
parse_color_value(node) ==
    LET c == arg0(node, "String") IN
    IF IsSome(c) THEN Some(Solid(Unwrap(c)[1])) ELSE None

\* appearance_parser::parse_gradient
parse_gradient(node) ==
    LET from == prop(node, "from", "String")
        to == prop(node, "to", "String")
        angle == prop(node, "angle", "Integer")
        relative_to == prop(node, "relative-to", "String")
        color_space == prop(node, "in", "String") IN
    IF ~IsSome(from) \/ ~IsSome(to) THEN None
    ELSE Some(Gradient(Unwrap(from)[1], Unwrap(to)[1],
                       IF IsSome(angle) THEN Unwrap(angle) ELSE None,
                       IF IsSome(relative_to) THEN Unwrap(relative_to) ELSE None,
                       IF IsSome(color_space) THEN Unwrap(color_space) ELSE None))

\* the integer first argument of a node, or the value given
int_arg_or(node, old) ==
    IF IsSome(arg0(node, "Integer")) THEN Unwrap(arg0(node, "Integer"))[1] ELSE old

\* appearance_parser::parse_focus_ring, the match on one child
focus_ring_child(fr, child) ==
    CASE child.name = "off" -> [fr EXCEPT !.off = TRUE]
      [] child.name = "width" -> [fr EXCEPT !.width = int_arg_or(child, @)]
      [] child.name = "active-color" ->
             IF IsSome(parse_color_value(child))
             THEN [fr EXCEPT !.active_color = Unwrap(parse_color_value(child))] ELSE fr
      [] child.name = "inactive-color" ->
             IF IsSome(parse_color_value(child))
             THEN [fr EXCEPT !.inactive_color = Unwrap(parse_color_value(child))] ELSE fr
      [] child.name = "active-gradient" ->
             IF IsSome(parse_gradient(child))
             THEN [fr EXCEPT !.active_color = Unwrap(parse_gradient(child)),
                             !.active_gradient = parse_gradient(child)] ELSE fr
      [] child.name = "inactive-gradient" ->
             IF IsSome(parse_gradient(child))
             THEN [fr EXCEPT !.inactive_color = Unwrap(parse_gradient(child)),
                             !.inactive_gradient = parse_gradient(child)] ELSE fr
      [] OTHER -> fr

\* appearance_parser::parse_border, the match on one child
border_child(bs, child) ==
    CASE child.name = "on" -> [bs EXCEPT !.off = FALSE]
      [] child.name = "urgent-color" -> [bs EXCEPT !.urgent_color = parse_color_value(child)]
      [] child.name = "urgent-gradient" ->
             IF IsSome(parse_gradient(child))
             THEN [bs EXCEPT !.urgent_color = parse_gradient(child)] ELSE bs
      [] OTHER -> focus_ring_child(bs, child)

\* appearance_parser::parse_shadow, the match on one child
shadow_child(sh, child) ==
    CASE child.name = "on" -> [sh EXCEPT !.on = TRUE]
      [] child.name = "draw-behind-window" ->
             [sh EXCEPT !.draw_behind_window =
                 IF IsSome(arg0(child, "Bool")) THEN Unwrap(arg0(child, "Bool"))[1] ELSE TRUE]
      [] child.name = "softness" -> [sh EXCEPT !.softness = int_arg_or(child, @)]
      [] child.name = "spread" -> [sh EXCEPT !.spread = int_arg_or(child, @)]
      [] child.name = "offset" ->
             [sh EXCEPT !.offset_x = IF IsSome(prop(child, "x", "Integer"))
                                     THEN Unwrap(prop(child, "x", "Integer"))[1] ELSE @,
                        !.offset_y = IF IsSome(prop(child, "y", "Integer"))
                                     THEN Unwrap(prop(child, "y", "Integer"))[1] ELSE @]
      [] child.name = "color" ->
             IF IsSome(parse_color_value(child))
             THEN [sh EXCEPT !.color = Unwrap(parse_color_value(child))] ELSE sh
      [] OTHER -> sh

\* appearance_parser::parse_struts, the match on one child
struts_child(st, child) ==
    LET value == IF IsSome(arg0(child, "Integer")) THEN Unwrap(arg0(child, "Integer")) ELSE None
    IN CASE child.name = "left" -> [st EXCEPT !.left = value]
         [] child.name = "right" -> [st EXCEPT !.right = value]
         [] child.name = "top" -> [st EXCEPT !.top = value]
         [] child.name = "bottom" -> [st EXCEPT !.bottom = value]
         [] OTHER -> st

RECURSIVE parse_block(_, _, _)
\* the loop "for child in children.nodes()" of the four block parsers
parse_block(which, acc, children) ==
    IF children = <<>> THEN acc
    ELSE parse_block(which,
                     CASE which = "focus-ring" -> focus_ring_child(acc, Head(children))
                       [] which = "border" -> border_child(acc, Head(children))
                       [] which = "shadow" -> shadow_child(acc, Head(children))
                       [] OTHER -> struts_child(acc, Head(children)),
                     Tail(children))

block_of(node) == IF IsSome(node.children) THEN Unwrap(node.children) ELSE <<>>

\* CenterFocusedColumn::from_str
cfc_from_str(str) == IF str \in {"never", "always", "on-overflow"} THEN Some(str) ELSE None

\* appearance_parser::parse_layout_block, the match on one child
layout_child(s, child) ==
    CASE child.name = "gaps" -> [s EXCEPT !.gaps = int_arg_or(child, @)]
      [] child.name = "center-focused-column" ->
             IF IsSome(arg0(child, "String")) /\ IsSome(cfc_from_str(Unwrap(arg0(child, "String"))[1]))
             THEN [s EXCEPT !.center_focused_column = Unwrap(arg0(child, "String"))[1]] ELSE s
      [] child.name = "focus-ring" ->
             [s EXCEPT !.focus_ring = parse_block("focus-ring", DefaultFocusRing, block_of(child))]
      [] child.name = "border" ->
             [s EXCEPT !.border = parse_block("border", DefaultBorder, block_of(child))]
      [] child.name = "shadow" ->
             [s EXCEPT !.shadow = parse_block("shadow", DefaultShadow, block_of(child))]
      [] child.name = "struts" ->
             [s EXCEPT !.struts = parse_block("struts", DefaultStruts, block_of(child))]
      [] OTHER -> s

RECURSIVE parse_layout_block(_, _)
\* appearance_parser::parse_layout_block
parse_layout_block(s, children) ==
    IF children = <<>> THEN s
    ELSE parse_layout_block(layout_child(s, Head(children)), Tail(children))

\* appearance_parser::parse_appearance
parse_appearance(doc) ==
    LET i == node_idx(doc, "layout") IN
    IF i = 0 THEN DefaultSettings ELSE parse_layout_block(DefaultSettings, block_of(doc[i]))

\* AppearanceSection::all
AppearanceSection_all == <<"General", "FocusRing", "Border", "Shadow", "Struts">>

\* AppearanceSection::fields
fields(section) ==
    CASE section = "General" -> <<"Gaps", "CenterFocusedColumn">>
      [] section = "FocusRing" -> <<"FocusRingOff", "FocusRingWidth", "FocusRingActiveColor",
                                    "FocusRingInactiveColor">>
      [] section = "Border" -> <<"BorderOff", "BorderWidth", "BorderActiveColor",
                                 "BorderInactiveColor", "BorderUrgentColor">>
      [] section = "Shadow" -> <<"ShadowOn", "ShadowDrawBehindWindow", "ShadowSoftness",
                                 "ShadowSpread", "ShadowOffsetX", "ShadowOffsetY", "ShadowColor">>
      [] OTHER -> <<"StrutsLeft", "StrutsRight", "StrutsTop", "StrutsBottom">>

\* AppearanceField::is_boolean
is_boolean(field) == field \in {"FocusRingOff", "BorderOff", "ShadowOn", "ShadowDrawBehindWindow"}

\* AppearanceField::is_enum
is_enum(field) == field = "CenterFocusedColumn"

\* AppearanceField::is_color
is_color(field) ==
    field \in {"FocusRingActiveColor", "FocusRingInactiveColor", "BorderActiveColor",
               "BorderInactiveColor", "BorderUrgentColor", "ShadowColor"}

\* AppearanceField::is_integer
is_integer(field) ==
    field \in {"Gaps", "FocusRingWidth", "BorderWidth", "ShadowSoftness", "ShadowSpread",
               "ShadowOffsetX", "ShadowOffsetY", "StrutsLeft", "StrutsRight", "StrutsTop",
               "StrutsBottom"}

\* FieldValue: [t, v] with v = <<value>>, and v the option itself for OptionalInteger
FieldValue(t, value) == [t |-> t, v |-> <<value>>]
OptionalInteger(opt) == [t |-> "OptionalInteger", v |-> opt]

\* AppearanceViewModel::visible_items: [header, name] items
visible_items(collapsed) ==
    LET RECURSIVE sections(_)
        sections(i) ==
            IF i > Len(AppearanceSection_all) THEN <<>>
            ELSE LET sec == AppearanceSection_all[i] IN
                 <<[header |-> TRUE, name |-> sec]>>
                 \o (IF sec \in collapsed THEN <<>>
                     ELSE [j \in 1..Len(fields(sec)) |-> [header |-> FALSE, name |-> fields(sec)[j]]])
                 \o sections(i + 1)
    IN sections(1)

\* AppearanceViewModel::selected_item
selected_item(collapsed, index) ==
    IF index < Len(visible_items(collapsed)) THEN Some(visible_items(collapsed)[index + 1]) ELSE None

\* AppearanceViewModel::get_field_value
get_field_value(s, field) ==
    CASE field = "Gaps" -> FieldValue("Integer", s.gaps)
      [] field = "CenterFocusedColumn" -> FieldValue("Enum", s.center_focused_column)
      [] field = "FocusRingOff" -> FieldValue("Boolean", s.focus_ring.off)
      [] field = "FocusRingWidth" -> FieldValue("Integer", s.focus_ring.width)
      [] field = "FocusRingActiveColor" -> FieldValue("Color", s.focus_ring.active_color)
      [] field = "FocusRingInactiveColor" -> FieldValue("Color", s.focus_ring.inactive_color)
      [] field = "BorderOff" -> FieldValue("Boolean", s.border.off)
      [] field = "BorderWidth" -> FieldValue("Integer", s.border.width)
      [] field = "BorderActiveColor" -> FieldValue("Color", s.border.active_color)
      [] field = "BorderInactiveColor" -> FieldValue("Color", s.border.inactive_color)
      [] field = "BorderUrgentColor" ->
             IF IsSome(s.border.urgent_color)
             THEN FieldValue("Color", Unwrap(s.border.urgent_color))
             ELSE FieldValue("String", "(not set)")
      [] field = "ShadowOn" -> FieldValue("Boolean", s.shadow.on)
      [] field = "ShadowDrawBehindWindow" -> FieldValue("Boolean", s.shadow.draw_behind_window)
      [] field = "ShadowSoftness" -> FieldValue("Integer", s.shadow.softness)
      [] field = "ShadowSpread" -> FieldValue("Integer", s.shadow.spread)
      [] field = "ShadowOffsetX" -> FieldValue("Integer", s.shadow.offset_x)
      [] field = "ShadowOffsetY" -> FieldValue("Integer", s.shadow.offset_y)
      [] field = "ShadowColor" -> FieldValue("Color", s.shadow.color)
      [] field = "StrutsLeft" -> OptionalInteger(s.struts.left)
      [] field = "StrutsRight" -> OptionalInteger(s.struts.right)
      [] field = "StrutsTop" -> OptionalInteger(s.struts.top)
      [] OTHER -> OptionalInteger(s.struts.bottom)

\* AppearanceViewModel::set_field_value, the match: the new settings, or None
\* for a (field, value) pair that no arm accepts
set_field(s, field, value) ==
    LET t == value.t
        x == IF t = "OptionalInteger" THEN value.v ELSE value.v[1] IN
    CASE field = "Gaps" /\ t = "Integer" -> Some([s EXCEPT !.gaps = x])
      [] field = "CenterFocusedColumn" /\ t = "Enum" -> Some([s EXCEPT !.center_focused_column = x])
      [] field = "FocusRingOff" /\ t = "Boolean" -> Some([s EXCEPT !.focus_ring.off = x])
      [] field = "FocusRingWidth" /\ t = "Integer" -> Some([s EXCEPT !.focus_ring.width = x])
      [] field = "FocusRingActiveColor" /\ t = "Color" -> Some([s EXCEPT !.focus_ring.active_color = x])
      [] field = "FocusRingInactiveColor" /\ t = "Color" -> Some([s EXCEPT !.focus_ring.inactive_color = x])
      [] field = "BorderOff" /\ t = "Boolean" -> Some([s EXCEPT !.border.off = x])
      [] field = "BorderWidth" /\ t = "Integer" -> Some([s EXCEPT !.border.width = x])
      [] field = "BorderActiveColor" /\ t = "Color" -> Some([s EXCEPT !.border.active_color = x])
      [] field = "BorderInactiveColor" /\ t = "Color" -> Some([s EXCEPT !.border.inactive_color = x])
      [] field = "BorderUrgentColor" /\ t = "Color" -> Some([s EXCEPT !.border.urgent_color = Some(x)])
      [] field = "ShadowOn" /\ t = "Boolean" -> Some([s EXCEPT !.shadow.on = x])
      [] field = "ShadowDrawBehindWindow" /\ t = "Boolean" -> Some([s EXCEPT !.shadow.draw_behind_window = x])
      [] field = "ShadowSoftness" /\ t = "Integer" -> Some([s EXCEPT !.shadow.softness = x])
      [] field = "ShadowSpread" /\ t = "Integer" -> Some([s EXCEPT !.shadow.spread = x])
      [] field = "ShadowOffsetX" /\ t = "Integer" -> Some([s EXCEPT !.shadow.offset_x = x])
      [] field = "ShadowOffsetY" /\ t = "Integer" -> Some([s EXCEPT !.shadow.offset_y = x])
      [] field = "ShadowColor" /\ t = "Color" -> Some([s EXCEPT !.shadow.color = x])
      [] field = "StrutsLeft" /\ t = "OptionalInteger" -> Some([s EXCEPT !.struts.left = x])
      [] field = "StrutsRight" /\ t = "OptionalInteger" -> Some([s EXCEPT !.struts.right = x])
      [] field = "StrutsTop" /\ t = "OptionalInteger" -> Some([s EXCEPT !.struts.top = x])
      [] field = "StrutsBottom" /\ t = "OptionalInteger" -> Some([s EXCEPT !.struts.bottom = x])
      [] OTHER -> None

\* a set_field_value that keeps the earlier entries of the field
set_field_value_appending(s, pending, field, value) ==
    IF ~IsSome(set_field(s, field, value)) THEN [settings |-> s, pending_changes |-> pending]
    ELSE [settings |-> Unwrap(set_field(s, field, value)),
          pending_changes |-> Append(pending, [field |-> field, value |-> value])]

\* AppearanceViewModel::set_field_value: the new [settings, pending_changes]
set_field_value(s, pending, field, value) ==
    IF ~IsSome(set_field(s, field, value)) THEN [settings |-> s, pending_changes |-> pending]
    ELSE [settings |-> Unwrap(set_field(s, field, value)),
          pending_changes |-> Append(SelectSeq(pending, LAMBDA c : c.field # field),
                                     [field |-> field, value |-> value])]

\* AppearanceViewModel::toggle_boolean
toggle_boolean(s, pending, field) ==
    LET current == get_field_value(s, field) IN
    IF current.t = "Boolean"
    THEN set_field_value(s, pending, field, FieldValue("Boolean", ~current.v[1]))
    ELSE [settings |-> s, pending_changes |-> pending]

\* AppearanceViewModel::increment_field
increment_field(s, pending, field, amount) ==
    LET current == get_field_value(s, field) IN
    CASE current.t = "Integer" ->
             set_field_value(s, pending, field, FieldValue("Integer", current.v[1] + amount))
      [] current.t = "OptionalInteger" ->
             set_field_value(s, pending, field,
                             OptionalInteger(Some((IF IsSome(current.v) THEN Unwrap(current.v) ELSE 0)
                                                  + amount)))
      [] OTHER -> [settings |-> s, pending_changes |-> pending]

\* CenterFocusedColumn::next and CenterFocusedColumn::prev
cfc_next(e) == CASE e = "never" -> "always" [] e = "always" -> "on-overflow" [] OTHER -> "never"
cfc_prev(e) == CASE e = "never" -> "on-overflow" [] e = "always" -> "never" [] OTHER -> "always"

\* AppearanceViewModel::cycle_enum
cycle_enum(s, pending, field, forward) ==
    LET current == get_field_value(s, field) IN
    IF current.t = "Enum"
    THEN set_field_value(s, pending, field,
                         FieldValue("Enum", IF forward THEN cfc_next(current.v[1])
                                            ELSE cfc_prev(current.v[1])))
    ELSE [settings |-> s, pending_changes |-> pending]

----------------------------------------------------------------------------
(* The initial state: App::new *)

Output(name, position, size, enabled) ==
    [name |-> name, position |-> position, logical_size |-> size,
     enabled |-> enabled, configured |-> FALSE]

OutputNode(name, arg, children) == [name |-> name, arg |-> Some(arg), children |-> children]

\* the bindings of the binds blocks explored
BindQ == Node3("Mod", "Q", "close-window")
BindT == Node3("Mod", "T", "spawn-terminal")
BindF == Node3("Mod", "F", "fullscreen-window")

\* the outputs the compositor reports: a disabled output first, two enabled ones
NiriOutputs ==
    <<Output("D", Position(0, 0), Size(1, 1), FALSE),
      Output("A", Position(0, 0), Size(2, 1), TRUE),
      Output("B", Position(1, 0), Size(1, 2), TRUE)>>

\* the configuration files explored
DocFull ==
    <<OutputNode("output", "A", Some(<<PosNode(Position(0, 0))>>)),
      [name |-> "binds", arg |-> None, children |-> Some(<<BindQ, BindT, BindF>>)],
      OutputNode("/-output", "B", None),
      [name |-> "layout", arg |-> None,
       children |-> Some(<<Node("gaps", <<KdlInteger(16)>>, <<>>, None)>>)]>>
DocBare == <<[name |-> "prefer-no-csd", arg |-> None, children |-> None]>>

InitFiles == {Some(DocFull), Some(DocBare), None}

\* App::load_config, the marking of the outputs that have a position in the document
mark_configured(outs, doc) ==
    LET positions == get_configured_positions(doc)
        names == { positions[i].name : i \in 1..Len(positions) } IN
    [i \in 1..Len(outs) |-> IF outs[i].name \in names THEN [outs[i] EXCEPT !.configured = TRUE]
                            ELSE outs[i]]

\* last: the message, its outcome, the outcome of the reload request sent to the
\* compositor, the filesystem call that failed, and the in-memory document
\* that a Save which failed at the filesystem started from
NoLast == [msg |-> "new", result |-> "done", reload |-> "none", io |-> "none", doc |-> None]
Last(msg, result) ==
    [msg |-> msg, result |-> result, reload |-> "none", io |-> "none", doc |-> None]

\* the part of App::new and of load_config that a successfully loaded document sets
Loaded(doc, outs) ==
    /\ outputs = mark_configured(outs, doc)
    /\ bindings = parse_keybindings(doc)
    /\ settings = parse_appearance(doc)
    /\ original_settings = parse_appearance(doc)
    /\ config = Some(doc)

InitWith(f, outs) ==
    /\ current_category = "Outputs"
    /\ niri_outputs = outs
    /\ file = f
    /\ backup = None
    /\ selected_index = 0
    /\ pending_changes = <<>>
    /\ kb_selected_index = 0
    /\ kb_pending_changes = <<>>
    /\ search_query = ""
    /\ edit_mode = None
    /\ app_pending_changes = <<>>
    /\ app_selected_index = 0
    /\ collapsed_sections = {}
    /\ app_edit_mode = None
    /\ last = NoLast
    /\ steps = 0
    /\ ret = <<>>
    /\ IF IsSome(load(f))
       THEN Loaded(Unwrap(load(f)), outs) /\ error = None
       ELSE /\ outputs = outs
            /\ bindings = <<>>
            /\ settings = DefaultSettings
            /\ original_settings = DefaultSettings
            /\ config = None
            /\ error = Some("Failed to load config")

Init == \E f \in InitFiles : InitWith(f, NiriOutputs)

----------------------------------------------------------------------------
(* OutputViewModel and update_output *)

InRange(position) == Abs(position.x) <= PosBound /\ Abs(position.y) <= PosBound

\* OutputViewModel::selected_output
selected_output == IF selected_index < Len(outputs) THEN Some(outputs[selected_index + 1]) ELSE None

\* OutputViewModel::get_display_position
get_display_position(outs, pending, name) ==
    IF name \in DOMAIN pending THEN Some(pending[name])
    ELSE LET hits == { i \in 1..Len(outs) : outs[i].name = name }
         IN IF hits = {} THEN None ELSE Some(outs[Min(hits)].position)

\* OutputViewModel::has_pending_changes
has_pending_changes == DOMAIN pending_changes # {}

\* OutputViewModel::apply_pending_change
apply_pending_change(pending, name, position) ==
    [n \in DOMAIN pending \cup {name} |-> IF n = name THEN position ELSE pending[n]]

\* a reference taken at its stored position, whatever the overlay holds
get_reference_monitor_stored(outs, pending, index) ==
    IF ~(index < Len(outs)) THEN None
    ELSE LET hits == { i \in 1..Len(outs) : outs[i].name # outs[index + 1].name /\ outs[i].enabled }
         IN IF hits = {} THEN None
            ELSE Some([pos |-> outs[Min(hits)].position, size |-> outs[Min(hits)].logical_size])

\* a reference that may be a disabled output
get_reference_monitor_any(outs, pending, index) ==
    IF ~(index < Len(outs)) THEN None
    ELSE LET hits == { i \in 1..Len(outs) : outs[i].name # outs[index + 1].name }
         IN IF hits = {} THEN None
            ELSE LET output == outs[Min(hits)] IN
                 Some([pos |-> Unwrap(get_display_position(outs, pending, output.name)),
                       size |-> output.logical_size])

\* update_output::get_reference_monitor
get_reference_monitor(outs, pending, index) ==
    IF ~(index < Len(outs)) THEN None
    ELSE LET hits == { i \in 1..Len(outs) : outs[i].name # outs[index + 1].name /\ outs[i].enabled }
         IN IF hits = {} THEN None
            ELSE LET output == outs[Min(hits)] IN
                 Some([pos |-> Unwrap(get_display_position(outs, pending, output.name)),
                       size |-> output.logical_size])

\* the position a snap message computes from the reference and the selected output
snap_position(msg, ref_pos, ref_size, my_size) ==
    CASE msg = "SnapLeft"  -> Position(ref_pos.x - my_size.width, ref_pos.y)
      [] msg = "SnapRight" -> Position(ref_pos.x + ref_size.width, ref_pos.y)
      [] msg = "SnapAbove" -> Position(ref_pos.x + TruncDiv(ref_size.width - my_size.width, 2),
                                       ref_pos.y - my_size.height)
      [] OTHER             -> Position(ref_pos.x + TruncDiv(ref_size.width - my_size.width, 2),
                                       ref_pos.y + ref_size.height)

OutputStep(msg) ==
    /\ last' = Last(msg, "done")
    /\ UNCHANGED <<current_category, error, outputs, kbVars, appVars, docVars, niri_outputs, ret>>

\* Message::SelectNextOutput
SelectNextOutput ==
    /\ selected_index' = IF outputs # <<>> THEN (selected_index + 1) % Len(outputs)
                         ELSE selected_index
    /\ UNCHANGED pending_changes
    /\ OutputStep("SelectNextOutput")

\* Message::SelectPrevOutput
SelectPrevOutput ==
    /\ selected_index' = IF outputs # <<>>
                         THEN (IF selected_index = 0 THEN Len(outputs) - 1 ELSE selected_index - 1)
                         ELSE selected_index
    /\ UNCHANGED pending_changes
    /\ OutputStep("SelectPrevOutput")

\* Message::MoveOutput { dx, dy }
MoveOutput(dx, dy) ==
    /\ IF IsSome(selected_output)
       THEN LET output == Unwrap(selected_output)
                current_pos == IF output.name \in DOMAIN pending_changes
                               THEN pending_changes[output.name] ELSE output.position
                new_pos == Position(current_pos.x + dx, current_pos.y + dy)
            IN pending_changes' = apply_pending_change(pending_changes, output.name, new_pos)
       ELSE UNCHANGED pending_changes
    /\ UNCHANGED selected_index
    /\ OutputStep("MoveOutput")

\* Message::SnapLeft, SnapRight, SnapAbove, SnapBelow
Snap(msg) ==
    /\ LET ref == get_reference_monitor(outputs, pending_changes, selected_index) IN
       IF IsSome(selected_output) /\ IsSome(ref)
       THEN LET output == Unwrap(selected_output)
                new_pos == snap_position(msg, Unwrap(ref).pos, Unwrap(ref).size, output.logical_size)
            IN pending_changes' = apply_pending_change(pending_changes, output.name, new_pos)
       ELSE UNCHANGED pending_changes
    /\ UNCHANGED selected_index
    /\ OutputStep(msg)

\* i32::MAX, which Normalize also uses for "no enabled output seen"
I32_MAX == 2147483647

\* a Normalize that takes every output for enabled
normalized_every_output(outs, pending) ==
    LET all == 1..Len(outs)
        pos(i) == Unwrap(get_display_position(outs, pending, outs[i].name))
    IN IF all = {} THEN pending
       ELSE [n \in DOMAIN pending \cup { outs[i].name : i \in all } |->
                LET i == Min({ k \in all : outs[k].name = n }) IN
                Position(pos(i).x - Min({ pos(k).x : k \in all }),
                         pos(i).y - Min({ pos(k).y : k \in all }))]

\* Message::Normalize, the overlay it leaves: the running minimum starts at
\* i32::MAX, and the arm returns early when either minimum still is i32::MAX.
\* (The subtractions are i32; they stay inside i32 for the positions explored.)
normalized(outs, pending) ==
    LET enabled == { i \in 1..Len(outs) : outs[i].enabled }
        pos(i) == Unwrap(get_display_position(outs, pending, outs[i].name))
        min_x == Min({I32_MAX} \cup { pos(i).x : i \in enabled })
        min_y == Min({I32_MAX} \cup { pos(i).y : i \in enabled })
        names == { outs[i].name : i \in enabled }
        first(n) == Min({ i \in enabled : outs[i].name = n })
    IN IF min_x = I32_MAX \/ min_y = I32_MAX THEN pending
       ELSE [n \in DOMAIN pending \cup names |->
                IF n \in names
                THEN Position(pos(first(n)).x - min_x, pos(first(n)).y - min_y)
                ELSE pending[n]]

\* Message::Normalize
Normalize ==
    /\ pending_changes' = normalized(outputs, pending_changes)
    /\ UNCHANGED selected_index
    /\ OutputStep("Normalize")

\* Message::RevertPreview: OutputViewModel::clear_pending_changes
RevertPreview ==
    /\ pending_changes' = <<>>
    /\ last' = Last("RevertPreview", IF has_pending_changes THEN "dropped" ELSE "empty")
    /\ UNCHANGED <<selected_index, current_category, error, outputs, kbVars, appVars,
                   docVars, niri_outputs, ret>>

\* Message::SwitchCategory
SwitchCategory(category) ==
    /\ current_category' = category
    /\ error' = None
    /\ last' = Last("SwitchCategory", "done")
    /\ UNCHANGED <<outVars, kbVars, appVars, docVars, niri_outputs, ret>>

\* Message::ClearError
ClearError ==
    /\ error' = None
    /\ last' = Last("ClearError", "done")
    /\ UNCHANGED <<current_category, outVars, kbVars, appVars, docVars, niri_outputs, ret>>

\* Message::RefreshOutputs: the IPC call fails or returns the compositor's outputs
RefreshOutputs ==
    /\ \/ /\ outputs' = niri_outputs
          /\ UNCHANGED error
          /\ last' = Last("RefreshOutputs", "ok")
       \/ /\ error' = Some("Failed to refresh")
          /\ UNCHANGED outputs
          /\ last' = Last("RefreshOutputs", "failed")
    /\ UNCHANGED <<current_category, selected_index, pending_changes, kbVars, appVars,
                   docVars, niri_outputs, ret>>

\* Message::Error
MessageError(e) ==
    /\ error' = Some(e)
    /\ last' = Last("Error", "done")
    /\ UNCHANGED <<current_category, outVars, kbVars, appVars, docVars, niri_outputs, ret>>

\* the compositor's outputs after preview_position succeeded for the names given
previewed(outs, pending, names) ==
    [i \in 1..Len(outs) |->
        IF outs[i].name \in names THEN [outs[i] EXCEPT !.position = pending[outs[i].name]]
        ELSE outs[i]]

\* App::preview_changes, were it to report success without having sent every
\* pending position
preview_changes_skipping ==
    IF ~has_pending_changes
    THEN /\ last' = Last("PreviewChanges", "empty")
         /\ UNCHANGED <<error, niri_outputs>>
    ELSE \/ /\ error' = Some("Failed to connect")
            /\ last' = Last("PreviewChanges", "noconnection")
            /\ UNCHANGED niri_outputs
         \/ \E sent \in SUBSET (DOMAIN pending_changes) :
               /\ niri_outputs' = previewed(niri_outputs, pending_changes, sent)
               /\ last' = Last("PreviewChanges", "ok")
               /\ UNCHANGED error

\* App::preview_changes: nothing to do without an overlay; else the connection
\* fails, or the positions are sent in the map's iteration order until one fails
preview_changes ==
    IF ~has_pending_changes
    THEN /\ last' = Last("PreviewChanges", "empty")
         /\ UNCHANGED <<error, niri_outputs>>
    ELSE \/ /\ error' = Some("Failed to connect")
            /\ last' = Last("PreviewChanges", "noconnection")
            /\ UNCHANGED niri_outputs
         \/ \E sent \in SUBSET (DOMAIN pending_changes) :
               /\ niri_outputs' = previewed(niri_outputs, pending_changes, sent)
               /\ IF sent = DOMAIN pending_changes
                  THEN /\ last' = Last("PreviewChanges", "ok")
                       /\ UNCHANGED error
                  ELSE /\ error' = Some("Preview failed")
                       /\ last' = Last("PreviewChanges", "failed")

\* Message::PreviewChanges
PreviewChanges ==
    /\ preview_changes
    /\ UNCHANGED <<current_category, outVars, kbVars, appVars, docVars, ret>>

----------------------------------------------------------------------------
(* Keybindings messages *)

visible_count == Len(filtered_bindings(bindings, kb_pending_changes, search_query))

\* KeybindingsViewModel::selected_effective_binding
selected_effective_binding ==
    LET filtered == filtered_bindings(bindings, kb_pending_changes, search_query) IN
    IF kb_selected_index < Len(filtered) THEN Some(filtered[kb_selected_index + 1]) ELSE None

\* usize::saturating_sub
saturating_sub(a, b) == IF a >= b THEN a - b ELSE 0

KbStep(msg, result) ==
    /\ last' = Last(msg, result)
    /\ UNCHANGED <<current_category, outVars, appVars, docVars, niri_outputs, ret>>

\* Message::SelectNextKeybinding
SelectNextKeybinding ==
    /\ kb_selected_index' = IF visible_count > 0 THEN (kb_selected_index + 1) % visible_count
                            ELSE kb_selected_index
    /\ UNCHANGED <<bindings, kb_pending_changes, search_query, edit_mode, error>>
    /\ KbStep("SelectNextKeybinding", "done")

\* Message::SelectPrevKeybinding
SelectPrevKeybinding ==
    /\ kb_selected_index' = IF visible_count > 0
                            THEN (IF kb_selected_index = 0 THEN visible_count - 1
                                  ELSE kb_selected_index - 1)
                            ELSE kb_selected_index
    /\ UNCHANGED <<bindings, kb_pending_changes, search_query, edit_mode, error>>
    /\ KbStep("SelectPrevKeybinding", "done")

\* Message::AddKeybinding
AddKeybinding ==
    /\ edit_mode' = Some(new_binding)
    /\ error' = None
    /\ UNCHANGED <<bindings, kb_selected_index, kb_pending_changes, search_query>>
    /\ KbStep("AddKeybinding", "done")

\* Message::StartEdit: App::start_edit_keybinding
StartEdit ==
    /\ IF IsSome(selected_effective_binding)
       THEN LET eb == Unwrap(selected_effective_binding)
                original_index == IF IsSome(eb.original_index) THEN Unwrap(eb.original_index) ELSE 0
            IN /\ edit_mode' = Some(from_binding(original_index, eb.binding))
               /\ error' = None
       ELSE UNCHANGED <<edit_mode, error>>
    /\ UNCHANGED <<bindings, kb_selected_index, kb_pending_changes, search_query>>
    /\ KbStep("StartEdit", "done")

\* Message::CancelEdit
CancelEdit ==
    /\ edit_mode' = None
    /\ error' = None
    /\ UNCHANGED <<bindings, kb_selected_index, kb_pending_changes, search_query>>
    /\ KbStep("CancelEdit", "done")

\* App::handle_edit_mode_input: the keys typed into the form leave the combo
\* field, the action type and the action field as given
EditInput(key_combo, action_type, action_value) ==
    /\ IsSome(edit_mode)
    /\ edit_mode' = Some([Unwrap(edit_mode) EXCEPT !.key_combo = key_combo,
                                                   !.action_type = action_type,
                                                   !.action_value = action_value])
    /\ UNCHANGED <<bindings, kb_selected_index, kb_pending_changes, search_query, error>>
    /\ KbStep("EditInput", "done")

\* a confirmation that closes the form when the keybinding is invalid
ConfirmEdit_closing_on_error ==
    /\ IF ~IsSome(edit_mode)
       THEN /\ UNCHANGED <<kb_pending_changes, edit_mode, error>>
            /\ last' = Last("ConfirmEdit", "noop")
       ELSE LET em == Unwrap(edit_mode)
                new_kb == to_keybinding(em) IN
            IF ~IsSome(new_kb)
            THEN /\ error' = Some("Invalid keybinding")
                 /\ edit_mode' = None
                 /\ UNCHANGED kb_pending_changes
                 /\ last' = Last("ConfirmEdit", "invalid")
            ELSE /\ kb_pending_changes' =
                        Append(kb_pending_changes,
                               IF em.is_new THEN Add(Unwrap(new_kb))
                               ELSE Modify(em.original_index, Unwrap(new_kb)))
                 /\ edit_mode' = None
                 /\ error' = None
                 /\ last' = Last("ConfirmEdit", "done")
    /\ UNCHANGED <<bindings, kb_selected_index, search_query>>
    /\ UNCHANGED <<current_category, outVars, appVars, docVars, niri_outputs, ret>>

\* Message::ConfirmEdit: App::confirm_edit_keybinding
ConfirmEdit ==
    /\ IF ~IsSome(edit_mode)
       THEN /\ UNCHANGED <<kb_pending_changes, edit_mode, error>>
            /\ last' = Last("ConfirmEdit", "noop")
       ELSE LET em == Unwrap(edit_mode)
                new_kb == to_keybinding(em) IN
            IF ~IsSome(new_kb)
            THEN /\ error' = Some("Invalid keybinding")
                 /\ UNCHANGED <<kb_pending_changes, edit_mode>>
                 /\ last' = Last("ConfirmEdit", "invalid")
            ELSE /\ kb_pending_changes' =
                        Append(kb_pending_changes,
                               IF em.is_new THEN Add(Unwrap(new_kb))
                               ELSE Modify(em.original_index, Unwrap(new_kb)))
                 /\ edit_mode' = None
                 /\ error' = None
                 /\ last' = Last("ConfirmEdit", "done")
    /\ UNCHANGED <<bindings, kb_selected_index, search_query>>
    /\ UNCHANGED <<current_category, outVars, appVars, docVars, niri_outputs, ret>>

\* Message::UpdateSearch: KeybindingsViewModel::set_search
UpdateSearch(query) ==
    /\ search_query' = query
    /\ kb_selected_index' = 0
    /\ UNCHANGED <<bindings, kb_pending_changes, edit_mode, error>>
    /\ KbStep("UpdateSearch", "done")

\* Message::ClearSearch: KeybindingsViewModel::clear_search
ClearSearch ==
    /\ search_query' = ""
    /\ kb_selected_index' = 0
    /\ UNCHANGED <<bindings, kb_pending_changes, edit_mode, error>>
    /\ KbStep("ClearSearch", "done")

\* a deletion that records the row of the filtered view
DeleteKeybinding_by_row ==
    /\ IF IsSome(selected_effective_binding)
       THEN LET eb == Unwrap(selected_effective_binding)
                pending == IF IsSome(eb.original_index)
                           THEN Append(kb_pending_changes, Delete(kb_selected_index))
                           ELSE SelectSeq(kb_pending_changes,
                                          LAMBDA c : ~(c.kind = "Add"
                                                       /\ combo(Unwrap(c.new)) = combo(eb.binding)))
                count == Len(filtered_bindings(bindings, pending, search_query))
            IN /\ kb_pending_changes' = pending
               /\ kb_selected_index' = IF kb_selected_index >= saturating_sub(count, 1)
                                       THEN saturating_sub(count, 2) ELSE kb_selected_index
               /\ last' = Last("DeleteKeybinding", "done")
       ELSE /\ UNCHANGED <<kb_pending_changes, kb_selected_index>>
            /\ last' = Last("DeleteKeybinding", "noop")
    /\ UNCHANGED <<bindings, search_query, edit_mode, error>>
    /\ UNCHANGED <<current_category, outVars, appVars, docVars, niri_outputs, ret>>

\* Message::DeleteKeybinding: App::delete_selected_keybinding
DeleteKeybinding ==
    /\ IF IsSome(selected_effective_binding)
       THEN LET eb == Unwrap(selected_effective_binding)
                pending == IF IsSome(eb.original_index)
                           THEN Append(kb_pending_changes, Delete(Unwrap(eb.original_index)))
                           ELSE SelectSeq(kb_pending_changes,
                                          LAMBDA c : ~(c.kind = "Add"
                                                       /\ combo(Unwrap(c.new)) = combo(eb.binding)))
                count == Len(filtered_bindings(bindings, pending, search_query))
            IN /\ kb_pending_changes' = pending
               /\ kb_selected_index' = IF kb_selected_index >= saturating_sub(count, 1)
                                       THEN saturating_sub(count, 2) ELSE kb_selected_index
               /\ last' = Last("DeleteKeybinding", "done")
       ELSE /\ UNCHANGED <<kb_pending_changes, kb_selected_index>>
            /\ last' = Last("DeleteKeybinding", "noop")
    /\ UNCHANGED <<bindings, search_query, edit_mode, error>>
    /\ UNCHANGED <<current_category, outVars, appVars, docVars, niri_outputs, ret>>

----------------------------------------------------------------------------
(* Appearance messages *)

AppStep(msg) ==
    /\ last' = Last(msg, "done")
    /\ UNCHANGED <<current_category, error, outVars, kbVars, docVars, niri_outputs, ret>>

\* Message::SelectNextAppearanceSetting
SelectNextAppearanceSetting ==
    /\ app_selected_index' = IF Len(visible_items(collapsed_sections)) > 0
                             THEN (app_selected_index + 1) % Len(visible_items(collapsed_sections))
                             ELSE app_selected_index
    /\ UNCHANGED <<settings, original_settings, app_pending_changes, collapsed_sections, app_edit_mode>>
    /\ AppStep("SelectNextAppearanceSetting")

\* Message::SelectPrevAppearanceSetting
SelectPrevAppearanceSetting ==
    /\ app_selected_index' = IF Len(visible_items(collapsed_sections)) > 0
                             THEN (IF app_selected_index = 0
                                   THEN Len(visible_items(collapsed_sections)) - 1
                                   ELSE app_selected_index - 1)
                             ELSE app_selected_index
    /\ UNCHANGED <<settings, original_settings, app_pending_changes, collapsed_sections, app_edit_mode>>
    /\ AppStep("SelectPrevAppearanceSetting")

\* the field under the selection, when the selected item is a field
selected_field ==
    LET item == selected_item(collapsed_sections, app_selected_index) IN
    IF IsSome(item) /\ ~Unwrap(item).header THEN Some(Unwrap(item).name) ELSE None

AppEdit(msg, applies, new) ==
    /\ IF applies
       THEN settings' = new.settings /\ app_pending_changes' = new.pending_changes
       ELSE UNCHANGED <<settings, app_pending_changes>>
    /\ UNCHANGED <<original_settings, app_selected_index, collapsed_sections, app_edit_mode>>
    /\ AppStep(msg)

\* Message::ToggleAppearanceBool: App::toggle_appearance_bool
ToggleAppearanceBool ==
    AppEdit("ToggleAppearanceBool",
            IsSome(selected_field) /\ is_boolean(Unwrap(selected_field)),
            toggle_boolean(settings, app_pending_changes, Unwrap(selected_field)))

\* Message::IncrementValue and Message::DecrementValue: App::adjust_appearance_value
AdjustValue(msg, amount) ==
    AppEdit(msg,
            IsSome(selected_field) /\ is_integer(Unwrap(selected_field)),
            increment_field(settings, app_pending_changes, Unwrap(selected_field), amount))

IncrementValue == AdjustValue("IncrementValue", 1)
DecrementValue == AdjustValue("DecrementValue", -1)

\* Message::CycleEnumForward and Message::CycleEnumBackward: App::cycle_appearance_enum
CycleEnum(msg, forward) ==
    AppEdit(msg,
            IsSome(selected_field) /\ is_enum(Unwrap(selected_field)),
            cycle_enum(settings, app_pending_changes, Unwrap(selected_field), forward))

CycleEnumForward == CycleEnum("CycleEnumForward", TRUE)
CycleEnumBackward == CycleEnum("CycleEnumBackward", FALSE)

\* the text of the edit dialog: the decimal rendering of an integer
\* (i32::to_string, which str::parse::<i32> reads back) or any other text
Digits(n) == [num |-> TRUE, n |-> n, s |-> ""]
Text(s) == [num |-> FALSE, n |-> 0, s |-> s]

\* what the appearance arms that may set the error leave alone
AppErrStep(msg, result) ==
    /\ last' = Last(msg, result)
    /\ UNCHANGED <<current_category, outVars, kbVars, docVars, niri_outputs, ret>>

\* Message::StartAppearanceEdit: App::start_appearance_edit
StartAppearanceEdit ==
    IF ~IsSome(selected_field)
    THEN AppEdit("StartAppearanceEdit", FALSE, <<>>)
    ELSE LET field == Unwrap(selected_field)
             current == get_field_value(settings, field) IN
         CASE is_boolean(field) ->
                  AppEdit("StartAppearanceEdit", TRUE,
                          toggle_boolean(settings, app_pending_changes, field))
           [] is_enum(field) ->
                  AppEdit("StartAppearanceEdit", TRUE,
                          cycle_enum(settings, app_pending_changes, field, TRUE))
           [] current.t = "Color" /\ current.v[1].kind = "Gradient" ->
                  /\ error' = Some("Gradient editing not supported yet")
                  /\ UNCHANGED appVars
                  /\ AppErrStep("StartAppearanceEdit", "failed")
           [] OTHER ->
                  LET value_str ==
                          CASE current.t = "Integer" -> Digits(current.v[1])
                            [] current.t = "OptionalInteger" ->
                                   IF IsSome(current.v) THEN Digits(Unwrap(current.v)) ELSE Text("")
                            [] current.t = "Color" -> Text(current.v[1].color)
                            [] current.t = "String" -> Text(current.v[1])
                            [] OTHER -> Text("")
                  IN /\ app_edit_mode' = Some([field |-> field, value |-> value_str])
                     /\ error' = None
                     /\ UNCHANGED <<settings, original_settings, app_pending_changes,
                                    app_selected_index, collapsed_sections>>
                     /\ AppErrStep("StartAppearanceEdit", "done")

\* App::handle_appearance_edit_mode_input: the keys that leave the given text
AppearanceEditInput(value) ==
    /\ IsSome(app_edit_mode)
    /\ app_edit_mode' = Some([Unwrap(app_edit_mode) EXCEPT !.value = value])
    /\ UNCHANGED <<settings, original_settings, app_pending_changes, app_selected_index,
                   collapsed_sections>>
    /\ AppStep("AppearanceEditInput")

\* Message::CancelAppearanceEdit
CancelAppearanceEdit ==
    /\ app_edit_mode' = None
    /\ error' = None
    /\ UNCHANGED <<settings, original_settings, app_pending_changes, app_selected_index,
                   collapsed_sections>>
    /\ AppErrStep("CancelAppearanceEdit", "done")

\* Message::ConfirmAppearanceEdit: App::confirm_appearance_edit
ConfirmAppearanceEdit ==
    IF ~IsSome(app_edit_mode)
    THEN AppEdit("ConfirmAppearanceEdit", FALSE, <<>>)
    ELSE LET field == Unwrap(app_edit_mode).field
             value_str == Unwrap(app_edit_mode).value
             struts == field \in {"StrutsLeft", "StrutsRight", "StrutsTop", "StrutsBottom"}
             value ==
                 CASE is_integer(field) ->
                          IF value_str.num THEN Some(FieldValue("Integer", value_str.n)) ELSE None
                   [] ~is_integer(field) /\ is_color(field) ->
                          \* a colour typed as digits is kept under one name
                          IF value_str = Text("") THEN None
                          ELSE Some(FieldValue("Color",
                                    Solid(IF value_str.num THEN "digits" ELSE value_str.s)))
                   [] ~is_integer(field) /\ ~is_color(field) /\ struts ->
                          IF value_str = Text("") THEN Some(OptionalInteger(None))
                          ELSE IF value_str.num THEN Some(OptionalInteger(Some(value_str.n)))
                          ELSE None
                   [] OTHER -> Some(FieldValue("String", value_str.s))
         IN IF ~IsSome(value)
            THEN /\ error' = Some(IF is_color(field) THEN "Color value cannot be empty"
                                  ELSE "Invalid integer value")
                 /\ UNCHANGED appVars
                 /\ AppErrStep("ConfirmAppearanceEdit", "failed")
            ELSE LET new == set_field_value(settings, app_pending_changes, field, Unwrap(value))
                 IN /\ settings' = new.settings
                    /\ app_pending_changes' = new.pending_changes
                    /\ app_edit_mode' = None
                    /\ error' = None
                    /\ UNCHANGED <<original_settings, app_selected_index, collapsed_sections>>
                    /\ AppErrStep("ConfirmAppearanceEdit", "done")

\* a toggle that acts on the section of the selected item, header or field
ToggleSection_of_any_item ==
    /\ LET item == selected_item(collapsed_sections, app_selected_index)
           sec == IF ~IsSome(item) THEN "General"
                  ELSE IF Unwrap(item).header THEN Unwrap(item).name
                  ELSE CHOOSE s \in { AppearanceSection_all[i] : i \in 1..Len(AppearanceSection_all) } :
                          \E j \in 1..Len(fields(s)) : fields(s)[j] = Unwrap(item).name IN
       collapsed_sections' =
           IF IsSome(item)
           THEN (IF sec \in collapsed_sections
                 THEN collapsed_sections \ {sec}
                 ELSE collapsed_sections \cup {sec})
           ELSE collapsed_sections
    /\ UNCHANGED <<settings, original_settings, app_pending_changes, app_selected_index,
                   app_edit_mode>>
    /\ AppStep("ToggleSection")

\* Message::ToggleSection: AppearanceViewModel::toggle_selected_section
ToggleSection ==
    /\ LET item == selected_item(collapsed_sections, app_selected_index) IN
       collapsed_sections' =
           IF IsSome(item) /\ Unwrap(item).header
           THEN (IF Unwrap(item).name \in collapsed_sections
                 THEN collapsed_sections \ {Unwrap(item).name}
                 ELSE collapsed_sections \cup {Unwrap(item).name})
           ELSE collapsed_sections
    /\ UNCHANGED <<settings, original_settings, app_pending_changes, app_selected_index,
                   app_edit_mode>>
    /\ AppStep("ToggleSection")

\* a reset that restores the settings and keeps the list of changes
ResetAppearance_keeping_list ==
    /\ ~IsSome(app_edit_mode)
    /\ settings' = original_settings
    /\ last' = Last("ResetAppearance", IF app_pending_changes # <<>> THEN "dropped" ELSE "empty")
    /\ UNCHANGED <<app_pending_changes, original_settings, app_selected_index,
                   collapsed_sections, app_edit_mode, current_category, error, outVars,
                   kbVars, docVars, niri_outputs, ret>>

\* App::handle_appearance_input, the Esc key outside the edit dialog:
\* AppearanceViewModel::reset_changes
ResetAppearance ==
    /\ ~IsSome(app_edit_mode)
    /\ settings' = original_settings
    /\ app_pending_changes' = <<>>
    /\ last' = Last("ResetAppearance", IF app_pending_changes # <<>> THEN "dropped" ELSE "empty")
    /\ UNCHANGED <<original_settings, app_selected_index, collapsed_sections, app_edit_mode,
                   current_category, error, outVars, kbVars, docVars, niri_outputs, ret>>

----------------------------------------------------------------------------
(* Message::Save and Message::Reload *)

\* NiriClient::reload_config after a written config: the outcomes of the IPC call
ReloadOutcomes == {"ok", "failed"}

SaveLast(result, reload, io) ==
    [msg |-> "Save", result |-> result, reload |-> reload, io |-> io,
     doc |-> IF io = "none" THEN None ELSE config]

\* save_*_config when the overlay is empty: the early return
SaveNothing ==
    /\ last' = SaveLast("noop", "none", "none")
    /\ UNCHANGED <<error, outVars, kbVars, appVars, docVars>>

\* save_*_config when no configuration is loaded
SaveNoConfig ==
    /\ error' = Some("No config loaded")
    /\ last' = SaveLast("noconfig", "none", "none")
    /\ UNCHANGED <<outVars, kbVars, appVars, docVars>>

\* a fold that marks the outputs configured and leaves their positions
apply_positions_marking_only(outs, pending) ==
    [i \in 1..Len(outs) |->
        IF outs[i].name \in DOMAIN pending
        THEN [outs[i] EXCEPT !.configured = TRUE]
        ELSE outs[i]]

\* save_output_config, the loop of the Ok arm over the pending map
apply_positions(outs, pending) ==
    [i \in 1..Len(outs) |->
        IF outs[i].name \in DOMAIN pending
           /\ \A j \in 1..(i - 1) : outs[j].name # outs[i].name
        THEN [outs[i] EXCEPT !.position = pending[outs[i].name], !.configured = TRUE]
        ELSE outs[i]]

\* App::save_output_config
save_output_config ==
    IF ~has_pending_changes THEN SaveNothing
    ELSE IF ~IsSome(config) THEN SaveNoConfig
    ELSE \E order \in Orders(DOMAIN pending_changes) :
         LET doc == write_positions_doc(Unwrap(config), pending_changes, order) IN
         \E o \in save(doc, file, backup) :
            /\ config' = Some(doc)
            /\ file' = o.file
            /\ backup' = o.backup
            /\ IF o.ok
               THEN /\ outputs' = apply_positions(outputs, pending_changes)
                    /\ pending_changes' = <<>>
                    /\ error' = None
                    /\ last' = SaveLast("ok", "none", "none")
               ELSE /\ error' = Some("Failed to save")
                    /\ last' = SaveLast("failed", "none", o.err)
                    /\ UNCHANGED <<outputs, pending_changes>>
            /\ UNCHANGED <<selected_index, kbVars, appVars>>

\* a Save that drops the overlay when the file cannot be written
save_keybindings_failed_dropping(io) ==
    /\ error' = Some("Failed to save keybindings")
    /\ last' = SaveLast("failed", "none", io)
    /\ kb_pending_changes' = <<>>
    /\ UNCHANGED <<bindings, kb_selected_index>>

\* App::save_keybindings_config, the Err arm after write_keybindings
save_keybindings_failed(io) ==
    /\ error' = Some("Failed to save keybindings")
    /\ last' = SaveLast("failed", "none", io)
    /\ UNCHANGED <<bindings, kb_pending_changes, kb_selected_index>>

\* App::save_keybindings_config
save_keybindings_config ==
    IF kb_pending_changes = <<>> THEN SaveNothing
    ELSE IF ~IsSome(config) THEN SaveNoConfig
    ELSE LET w == write_keybindings_doc(Unwrap(config), kb_pending_changes) IN
         IF ~w.ok
         THEN /\ error' = Some("Failed to save keybindings")
              /\ last' = SaveLast("failed", "none", "none")
              /\ UNCHANGED <<outVars, kbVars, appVars, docVars>>
         ELSE \E o \in save(w.doc, file, backup) :
                 /\ config' = Some(w.doc)
                 /\ file' = o.file
                 /\ backup' = o.backup
                 /\ IF o.ok
                    THEN /\ bindings' = parse_keybindings(w.doc)
                         /\ kb_pending_changes' = <<>>
                         /\ kb_selected_index' = 0
                         /\ \E r \in ReloadOutcomes :
                               /\ error' = IF r = "ok" THEN None
                                           ELSE Some("Saved, but failed to reload niri config")
                               /\ last' = SaveLast("ok", r, "none")
                    ELSE save_keybindings_failed(o.err)
                 /\ UNCHANGED <<search_query, edit_mode, outVars, appVars>>

\* a save of the appearance that asks the compositor to reload whether or
\* not the file was written
save_appearance_config_reloading_always ==
    IF app_pending_changes = <<>> THEN SaveNothing
    ELSE IF ~IsSome(config) THEN SaveNoConfig
    ELSE LET doc == write_appearance_doc(Unwrap(config), settings) IN
         \E o \in save(doc, file, backup) :
            /\ config' = Some(doc)
            /\ file' = o.file
            /\ backup' = o.backup
            /\ IF o.ok
               THEN /\ original_settings' = settings
                    /\ app_pending_changes' = <<>>
                    /\ \E r \in ReloadOutcomes :
                          /\ error' = IF r = "ok" THEN None
                                      ELSE Some("Saved, but failed to reload niri config")
                          /\ last' = SaveLast("ok", r, "none")
               ELSE /\ error' = Some("Failed to save appearance")
                    /\ \E r \in ReloadOutcomes : last' = SaveLast("failed", r, o.err)
                    /\ UNCHANGED <<original_settings, app_pending_changes>>
            /\ UNCHANGED <<settings, app_selected_index, collapsed_sections, app_edit_mode,
                           outVars, kbVars>>

\* App::save_appearance_config
save_appearance_config ==
    IF app_pending_changes = <<>> THEN SaveNothing
    ELSE IF ~IsSome(config) THEN SaveNoConfig
    ELSE LET doc == write_appearance_doc(Unwrap(config), settings) IN
         \E o \in save(doc, file, backup) :
            /\ config' = Some(doc)
            /\ file' = o.file
            /\ backup' = o.backup
            /\ IF o.ok
               THEN /\ original_settings' = settings
                    /\ app_pending_changes' = <<>>
                    /\ \E r \in ReloadOutcomes :
                          /\ error' = IF r = "ok" THEN None
                                      ELSE Some("Saved, but failed to reload niri config")
                          /\ last' = SaveLast("ok", r, "none")
               ELSE /\ error' = Some("Failed to save appearance")
                    /\ last' = SaveLast("failed", "none", o.err)
                    /\ UNCHANGED <<original_settings, app_pending_changes>>
            /\ UNCHANGED <<settings, app_selected_index, collapsed_sections, app_edit_mode,
                           outVars, kbVars>>

\* Message::Save: App::save_config
Save ==
    /\ CASE current_category = "Outputs" -> save_output_config
         [] current_category = "Keybindings" -> save_keybindings_config
         [] OTHER -> save_appearance_config
    /\ UNCHANGED <<current_category, niri_outputs, ret>>

\* Message::Reload: the overlays are dropped, then the outputs are fetched and
\* the configuration file is read again
Reload ==
    /\ pending_changes' = <<>>
    /\ kb_pending_changes' = <<>>
    /\ \/ \* load_outputs fails
          /\ error' = Some("Failed to reload")
          /\ settings' = original_settings
          /\ app_pending_changes' = <<>>
          /\ last' = Last("Reload", "failed")
          /\ UNCHANGED <<outputs, bindings, original_settings, app_selected_index,
                         collapsed_sections, app_edit_mode, config>>
       \/ IF IsSome(load(file))
          THEN LET doc == Unwrap(load(file)) IN
               /\ outputs' = mark_configured(niri_outputs, doc)
               /\ bindings' = parse_keybindings(doc)
               /\ settings' = parse_appearance(doc)
               /\ original_settings' = parse_appearance(doc)
               /\ app_pending_changes' = <<>>
               /\ app_selected_index' = 0
               /\ collapsed_sections' = {}
               /\ app_edit_mode' = None
               /\ config' = Some(doc)
               /\ last' = Last("Reload", "ok")
               /\ UNCHANGED error
          ELSE /\ outputs' = niri_outputs
               /\ error' = Some("Failed to load config")
               /\ settings' = original_settings
               /\ app_pending_changes' = <<>>
               /\ last' = Last("Reload", "noconfig")
               /\ UNCHANGED <<bindings, original_settings, app_selected_index,
                              collapsed_sections, app_edit_mode, config>>
    /\ UNCHANGED <<current_category, selected_index, kb_selected_index, search_query,
                   edit_mode, file, backup, niri_outputs, ret>>

----------------------------------------------------------------------------
(* The application under its three Save paths *)

Categories == {"Outputs", "Keybindings", "Appearance"}

\* a step that the exploration counts, and one that it does not
Counted(A) == steps < MaxSteps /\ A /\ steps' = steps + 1
Free(A) == A /\ UNCHANGED steps

PositionsInRange == \A n \in DOMAIN pending_changes' : InRange(pending_changes'[n])

Next ==
    \/ \E c \in Categories : Free(SwitchCategory(c))
    \/ Free(SelectNextOutput)
    \/ Counted(MoveOutput(1, 0)) /\ PositionsInRange
    \/ Counted(DeleteKeybinding) /\ Len(kb_pending_changes') <= MaxPending
    \/ Free(SelectNextAppearanceSetting) /\ app_selected_index' <= MaxAppSelect
    \/ Counted(IncrementValue) /\ settings'.gaps <= MaxGaps
    \/ Counted(Save)

Spec == Init /\ [][Next]_vars

\* the position shown for every output, in the order of the list
shown_positions(outs, pending) ==
    [i \in 1..Len(outs) |-> Unwrap(get_display_position(outs, pending, outs[i].name))]

\* the step is a Save with the given outcome
SaveStep(result) == last'.msg = "Save" /\ last'.result = result

\* C1: in each of the three domains, a Save that fails because the backup copy
\* or the file write fails leaves the pending overlay and the base state (the
\* outputs, the base bindings list, the original appearance settings) exactly
\* as they were, and sets an error message.
C1_FailedSaveKeepsOverlayAndBase ==
    [][(SaveStep("failed") /\ last'.io \in {"backup", "write"}) =>
          /\ pending_changes' = pending_changes /\ outputs' = outputs
          /\ kb_pending_changes' = kb_pending_changes /\ bindings' = bindings
          /\ app_pending_changes' = app_pending_changes
          /\ original_settings' = original_settings /\ settings' = settings
          /\ IsSome(error')]_vars

\* a keybinding Save has just failed at the file write, which truncated the file
C1_Witness ==
    /\ last.msg = "Save" /\ last.result = "failed" /\ last.io = "write"
    /\ current_category = "Keybindings"
    /\ kb_pending_changes # <<>>
    /\ file = Some(Truncated)
    /\ IsSome(error)

\* C2: save never overwrites an existing config file unless the backup copy of
\* its content succeeded first: when the backup copy fails the Save reports an
\* error and the file is unchanged, and whenever the content of the file
\* changes the backup holds the content the file had just before.
C2_BackupBeforeOverwrite ==
    [][/\ (last'.msg = "Save" /\ last'.io = "backup") =>
             (file' = file /\ last'.result = "failed" /\ IsSome(error'))
       /\ (IsSome(file) /\ file' # file) => backup' = file]_vars

\* a second successful Save: the backup holds the document of the first one
C2_Witness ==
    /\ last.msg = "Save" /\ last.result = "ok"
    /\ IsSome(backup) /\ backup \notin InitFiles /\ backup # Some(Truncated)
    /\ file # backup

\* C5: a successful position Save leaves every output's base position equal
\* to the position shown before it and the overlay empty; a successful
\* appearance Save leaves the original settings equal to the working settings
\* before it and the pending list empty; the effective state is the same
\* before and after.
C5_SuccessfulSaveFoldsOverlay ==
    [][SaveStep("ok") =>
          /\ current_category = "Outputs" =>
                /\ [i \in 1..Len(outputs') |-> outputs'[i].position]
                       = shown_positions(outputs, pending_changes)
                /\ pending_changes' = <<>>
                /\ shown_positions(outputs', pending_changes')
                       = shown_positions(outputs, pending_changes)
          /\ current_category = "Appearance" =>
                /\ original_settings' = settings
                /\ app_pending_changes' = <<>>
                /\ settings' = settings]_vars

\* an appearance Save has folded a changed gaps value, after a position Save
\* folded a moved output
C5_Witness ==
    /\ last.msg = "Save" /\ last.result = "ok"
    /\ current_category = "Appearance"
    /\ original_settings.gaps = 17 /\ settings.gaps = 17 /\ app_pending_changes = <<>>
    /\ outputs[1].position = Position(1, 0) /\ pending_changes = <<>>

----------------------------------------------------------------------------
(* The keybindings editor: a configuration with three bindings *)

InitKeybindings == InitWith(Some(DocFull), NiriOutputs)

\* what the user types into the edit form
KeyCombos == {<<"Ctrl", "X">>}
ActionInputs == {[type |-> "BuiltIn", value |-> <<"quit">>]}

CountedKb(A) == steps < MaxKbSteps /\ A /\ steps' = steps + 1

PendingInBound == Len(kb_pending_changes') <= MaxPending

NextKeybindings ==
    \/ Free(SwitchCategory("Keybindings"))
    \/ Free(SelectNextKeybinding)
    \/ Free(AddKeybinding)
    \/ Free(StartEdit)
    \/ Free(CancelEdit)
    \/ \E k \in KeyCombos, a \in ActionInputs : Free(EditInput(k, a.type, a.value))
    \/ CountedKb(ConfirmEdit) /\ PendingInBound
    \/ CountedKb(DeleteKeybinding) /\ PendingInBound
    \/ CountedKb(Save)

SpecKeybindings == InitKeybindings /\ [][NextKeybindings]_vars

\* the binds block of a document, as the bindings it parses to without their
\* position in the file
binds_of(doc) ==
    LET bs == parse_keybindings(doc) IN
    [i \in 1..Len(bs) |-> [bs[i] EXCEPT !.kdl_index = None]]

\* the bindings of an effective list, without their position in the file
shown_bindings(base, pending) ==
    LET eff == effective_bindings(base, pending) IN
    [i \in 1..Len(eff) |-> [eff[i].binding EXCEPT !.kdl_index = None]]

----------------------------------------------------------------------------
(* effective_bindings as a function of the base list and the pending list *)

BindingX == [modifiers |-> [NoModifiers EXCEPT !.ctrl = TRUE], key |-> "X",
             properties |-> NoProperties, action |-> Simple("quit"), kdl_index |-> None]
BindingY == [BindingX EXCEPT !.key = "Y"]

\* the changes the pending lists are made of
Changes == {Delete(1), Delete(2), Modify(1, BindingX), Modify(1, BindingY),
            Modify(2, BindingX), Add(BindingX)}

\* the sequences over S of length at most n
RECURSIVE SeqsUpTo(_, _)
SeqsUpTo(S, n) ==
    IF n = 0 THEN {<<>>}
    ELSE LET shorter == SeqsUpTo(S, n - 1) IN
         shorter \cup { Append(q, c) : q \in shorter, c \in S }

InitEffectiveInputs ==
    \E n \in 0..Len(parse_keybindings(DocFull)), pending \in SeqsUpTo(Changes, MaxChanges) :
        /\ current_category = "Keybindings"
        /\ niri_outputs = NiriOutputs
        /\ outputs = NiriOutputs
        /\ file = Some(DocFull)
        /\ backup = None
        /\ config = Some(DocFull)
        /\ error = None
        /\ selected_index = 0
        /\ pending_changes = <<>>
        /\ bindings = SubSeq(parse_keybindings(DocFull), 1, n)
        /\ kb_selected_index = 0
        /\ kb_pending_changes = pending
        /\ search_query = ""
        /\ edit_mode = None
        /\ settings = DefaultSettings
        /\ original_settings = DefaultSettings
        /\ app_pending_changes = <<>>
        /\ app_selected_index = 0
        /\ collapsed_sections = {}
        /\ app_edit_mode = None
        /\ last = NoLast
        /\ steps = 0
        /\ ret = None

\* a call of KeybindingsViewModel::effective_bindings
CallEffectiveBindings ==
    /\ ret = None
    /\ ret' = Some(effective_bindings(bindings, kb_pending_changes))
    /\ last' = Last("effective_bindings", "done")
    /\ UNCHANGED <<current_category, error, outVars, kbVars, appVars, docVars,
                   niri_outputs, steps>>

NextEffective == CallEffectiveBindings

SpecEffective == InitEffectiveInputs /\ [][NextEffective]_vars

\* the elements of a finite set of numbers in increasing order
RECURSIVE Ascending(_)
Ascending(S) == IF S = {} THEN <<>> ELSE <<Min(S)>> \o Ascending(S \ {Min(S)})

Max(S) == CHOOSE m \in S : \A n \in S : n <= m

\* C6: effective_bindings returns, in base order, the base entries whose index
\* no pending Delete targets, each with its base index: an entry that pending
\* Modify entries target shows the replacement of the last of them with
\* status Modified, every other one its base binding with status Unchanged;
\* then every pending Add in the order of the list, with no original index
\* and status Added.  A Delete wins over a Modify of the same index.
C6_EffectiveBindingsContract ==
    IsSome(ret) =>
        LET result == Unwrap(ret)
            pending == kb_pending_changes
            targets(kind, idx) == { j \in 1..Len(pending) :
                                      pending[j].kind = kind /\ pending[j].index = idx }
            survivors == Ascending({ i \in 0..(Len(bindings) - 1) : targets("Delete", i) = {} })
            adds == Ascending({ j \in 1..Len(pending) : pending[j].kind = "Add" })
        IN /\ Len(result) = Len(survivors) + Len(adds)
           /\ \A k \in 1..Len(survivors) :
                 LET i == survivors[k] IN
                 /\ result[k].original_index = Some(i)
                 /\ IF targets("Modify", i) # {}
                    THEN /\ result[k].binding = Unwrap(pending[Max(targets("Modify", i))].new)
                         /\ result[k].status = "Modified"
                    ELSE /\ result[k].binding = bindings[i + 1]
                         /\ result[k].status = "Unchanged"
           /\ \A k \in 1..Len(adds) :
                 result[Len(survivors) + k] =
                     [binding |-> Unwrap(pending[adds[k]].new), original_index |-> None,
                      status |-> "Added"]

\* the call was made on a list that modifies an index twice, modifies and
\* deletes another one, and adds a binding
C6_Witness ==
    /\ IsSome(ret)
    /\ Len(bindings) = 3
    /\ kb_pending_changes = <<Modify(2, BindingX), Delete(2), Modify(1, BindingX),
                              Modify(1, BindingY), Add(BindingX)>>
    /\ Len(Unwrap(ret)) = 3
    /\ Unwrap(ret)[2].binding = BindingY

\* the list with the entries at positions i and j exchanged
swap(list, i, j) == [list EXCEPT ![i] = list[j], ![j] = list[i]]

\* C7: two pending lists that hold the same Delete entries in a different
\* order, every other entry being the same and in the same place, give the
\* same effective list.
C7_DeleteOrderIsIrrelevant ==
    IsSome(ret) =>
        \A i, j \in 1..Len(kb_pending_changes) :
            (kb_pending_changes[i].kind = "Delete" /\ kb_pending_changes[j].kind = "Delete")
            => effective_bindings(bindings, swap(kb_pending_changes, i, j)) = Unwrap(ret)

\* the call was made on a list with Delete(2) before Delete(1), on three bindings
C7_Witness ==
    /\ IsSome(ret)
    /\ Len(bindings) = 3
    /\ kb_pending_changes = <<Delete(2), Delete(1)>>
    /\ Len(Unwrap(ret)) = 1

----------------------------------------------------------------------------
(* set_output_position as a function of the document, the name, the position *)

ModeNode == [name |-> "mode", x |-> None, y |-> None]

\* the top-level nodes the documents are made of: output A enabled with a
\* position, disabled without children, enabled without a position, disabled
\* with a position that lacks y; output B; a node that is no output
DocNodes ==
    {OutputNode("output", "A", Some(<<PosNode(Position(0, 0))>>)),
     OutputNode("/-output", "A", None),
     OutputNode("output", "A", Some(<<ModeNode>>)),
     OutputNode("/-output", "A", Some(<<ModeNode, [name |-> "position", x |-> Some(1), y |-> None]>>)),
     OutputNode("output", "B", Some(<<PosNode(Position(1, 0))>>)),
     [name |-> "binds", arg |-> None, children |-> None]}

OutputNames == {"A", "B", "C"}
Positions == { Position(x, y) : x \in (0 - PosBound)..PosBound, y \in (0 - PosBound)..PosBound }

InitDocument ==
    \E doc \in SeqsUpTo(DocNodes, MaxNodes) :
        /\ current_category = "Outputs"
        /\ niri_outputs = NiriOutputs
        /\ outputs = mark_configured(NiriOutputs, doc)
        /\ file = Some(doc)
        /\ backup = None
        /\ config = Some(doc)
        /\ error = None
        /\ selected_index = 0
        /\ pending_changes = <<>>
        /\ bindings = parse_keybindings(doc)
        /\ kb_selected_index = 0
        /\ kb_pending_changes = <<>>
        /\ search_query = ""
        /\ edit_mode = None
        /\ settings = parse_appearance(doc)
        /\ original_settings = parse_appearance(doc)
        /\ app_pending_changes = <<>>
        /\ app_selected_index = 0
        /\ collapsed_sections = {}
        /\ app_edit_mode = None
        /\ last = NoLast
        /\ steps = 0
        /\ ret = None

\* a call of ConfigDocument::set_output_position on the loaded document
CallSetOutputPosition(name, position) ==
    /\ ret = None
    /\ config' = Some(set_output_position(Unwrap(config), name, position))
    /\ ret' = Some([name |-> name, position |-> position])
    /\ last' = Last("set_output_position", "done")
    /\ UNCHANGED <<current_category, error, outVars, kbVars, appVars, file, backup,
                   niri_outputs, steps>>

NextDocument == \E name \in OutputNames, position \in Positions : CallSetOutputPosition(name, position)

SpecDocument == InitDocument /\ [][NextDocument]_vars

\* the indices of the top-level output nodes, enabled or disabled, with that name
output_nodes(doc, name) ==
    { i \in 1..Len(doc) : doc[i].name \in {"output", "/-output"} /\ doc[i].arg = Some(name) }

\* C8: after set_output_position(n, p), get_output_position(n) returns p and
\* the configured positions read from the document contain (n, p), whether
\* the output node existed, existed in disabled form, or was absent.
C8_PositionReadsBack ==
    IsSome(ret) =>
        LET doc == Unwrap(config)
            n == Unwrap(ret).name
            p == Unwrap(ret).position
            read == get_configured_positions(doc)
        IN /\ get_output_position(doc, n) = Some(p)
           /\ \E i \in 1..Len(read) : read[i] = [name |-> n, position |-> p]

\* the position of output A was set in a document whose first node for A is
\* disabled and holds a position without y, followed by an enabled node for A
C8_Witness ==
    /\ IsSome(ret)
    /\ Unwrap(ret) = [name |-> "A", position |-> Position(1, 0 - 1)]
    /\ Len(Unwrap(file)) = 2
    /\ Unwrap(file)[1].name = "/-output" /\ IsSome(Unwrap(file)[1].children)
    /\ Unwrap(file)[2] = OutputNode("output", "A", Some(<<PosNode(Position(0, 0))>>))

\* C9: set_output_position never duplicates an output: when a top-level
\* output node with that name exists, enabled or disabled, the number of such
\* nodes is unchanged and the first of them is enabled after the call, at the
\* same index; only when none exists is one new output node appended at the
\* end of the document.
C9_NoDuplicateOutput ==
    [][(last'.msg = "set_output_position" /\ ret = None) =>
          LET before == Unwrap(config)
              after == Unwrap(config')
              n == Unwrap(ret').name
          IN IF output_nodes(before, n) # {}
             THEN /\ Len(after) = Len(before)
                  /\ output_nodes(after, n) = output_nodes(before, n)
                  /\ after[Min(output_nodes(before, n))].name = "output"
             ELSE /\ Len(after) = Len(before) + 1
                  /\ SubSeq(after, 1, Len(before)) = before
                  /\ output_nodes(after, n) = {Len(after)}
                  /\ after[Len(after)].name = "output"]_vars

\* the position of output A was set in a document that held a disabled node
\* for A before an enabled one: the disabled node is now enabled, in place
C9_Witness ==
    /\ IsSome(ret) /\ Unwrap(ret).name = "A"
    /\ Len(Unwrap(file)) = 3
    /\ Unwrap(file)[2] = OutputNode("/-output", "A", None)
    /\ Unwrap(file)[3].name = "output" /\ Unwrap(file)[3].arg = Some("A")
    /\ Len(Unwrap(config)) = 3
    /\ Unwrap(config)[2].name = "output"

----------------------------------------------------------------------------
(* The outputs canvas: moving and snapping the three outputs *)

InitOutputs == InitWith(Some(DocFull), NiriOutputs)

Moves == {<<1, 0>>, <<0 - 1, 0>>, <<0, 1>>, <<0, 0 - 1>>}
SnapMessages == {"SnapLeft", "SnapRight", "SnapAbove", "SnapBelow"}

NextOutputs ==
    \/ Free(SelectNextOutput)
    \/ Free(SelectPrevOutput)
    \/ \E m \in Moves : Free(MoveOutput(m[1], m[2])) /\ PositionsInRange
    \/ \E msg \in SnapMessages : Free(Snap(msg)) /\ PositionsInRange
    \/ Free(Normalize) /\ PositionsInRange
    \/ Free(RevertPreview)

SpecOutputs == InitOutputs /\ [][NextOutputs]_vars

\* C10: the reference is the first enabled output other than the selected
\* one, at its effective position.  SnapLeft sets the pending position of the
\* selected output to (ref.x - my.width, ref.y), SnapRight to
\* (ref.x + ref.width, ref.y), SnapAbove to
\* (ref.x + (ref.width - my.width)/2, ref.y - my.height) and SnapBelow to
\* (ref.x + (ref.width - my.width)/2, ref.y + ref.height), the division
\* truncating toward zero.
C10_SnapGeometry ==
    [][last'.msg \in SnapMessages =>
          LET me == outputs[selected_index + 1]
              others == { i \in 1..Len(outputs) :
                            outputs[i].name # me.name /\ outputs[i].enabled }
          IN others # {} =>
                LET ref == outputs[Min(others)]
                    at == IF ref.name \in DOMAIN pending_changes
                          THEN pending_changes[ref.name] ELSE ref.position
                    w == ref.logical_size.width - me.logical_size.width
                    half == IF w >= 0 THEN w \div 2 ELSE 0 - ((0 - w) \div 2)
                    target ==
                        CASE last'.msg = "SnapLeft" ->
                                 Position(at.x - me.logical_size.width, at.y)
                          [] last'.msg = "SnapRight" ->
                                 Position(at.x + ref.logical_size.width, at.y)
                          [] last'.msg = "SnapAbove" ->
                                 Position(at.x + half, at.y - me.logical_size.height)
                          [] OTHER ->
                                 Position(at.x + half, at.y + ref.logical_size.height)
                IN /\ me.name \in DOMAIN pending_changes'
                   /\ pending_changes'[me.name] = target
                   /\ \A n \in DOMAIN pending_changes' \ {me.name} :
                         n \in DOMAIN pending_changes /\ pending_changes'[n] = pending_changes[n]
         ]_vars

\* output A, wider than B by an odd amount, was snapped above B while B sat
\* at an unsaved position
C10_Witness ==
    /\ last.msg = "SnapAbove"
    /\ selected_index = 1
    /\ DOMAIN pending_changes = {"A", "B"}
    /\ pending_changes["B"] = Position(0, 0)
    /\ pending_changes["A"] = Position(0, 0 - 1)

----------------------------------------------------------------------------
(* The outputs canvas over several sets of outputs: all three, one enabled *)
(* output next to a disabled one, and none at all                          *)

OutputLists ==
    { NiriOutputs,
      <<Output("D", Position(0, 0), Size(1, 1), FALSE),
        Output("A", Position(0, 0), Size(2, 1), TRUE)>>,
      <<>> }

InitCanvas == \E outs \in OutputLists : InitWith(Some(DocFull), outs)

NextCanvas ==
    \/ Free(SelectNextOutput)
    \/ Free(SelectPrevOutput)
    \/ \E m \in Moves : Free(MoveOutput(m[1], m[2])) /\ PositionsInRange
    \/ \E msg \in SnapMessages : Free(Snap(msg)) /\ PositionsInRange
    \/ Free(Normalize) /\ PositionsInRange
    \/ Free(RevertPreview)

SpecCanvas == InitCanvas /\ [][NextCanvas]_vars

\* the indices of the enabled outputs
enabled_outputs(outs) == { i \in 1..Len(outs) : outs[i].enabled }

\* the selected output has no enabled output beside it, or nothing is selected
NoReference ==
    \/ ~(selected_index < Len(outputs))
    \/ \A i \in enabled_outputs(outputs) : outputs[i].name = outputs[selected_index + 1].name

\* C11: when no enabled output other than the selected one exists, or no
\* output is selected, every snap message leaves the position overlay, the
\* base positions and the selection unchanged.
C11_SnapWithoutReferenceIsNoOp ==
    [][(last'.msg \in SnapMessages /\ NoReference)
          => UNCHANGED <<pending_changes, outputs, selected_index>>]_vars

\* the only enabled output, moved before, was snapped while selected: the
\* disabled output beside it is no reference
C11_Witness ==
    /\ last.msg \in SnapMessages
    /\ Len(outputs) = 2
    /\ selected_index = 1
    /\ ~outputs[1].enabled
    /\ DOMAIN pending_changes = {"A"}
    /\ pending_changes["A"] = Position(1, 0)

\* Normalize over two outputs whose coordinates are drawn from the small ones
\* and the largest an i32 holds; an output that is off sits at the default
\* position, as NiriClient::convert_output reports it
Coordinates == {0, 1, I32_MAX}

OutputAt(name, p, on) ==
    Output(name, IF on THEN Position(p[1], p[2]) ELSE Position(0, 0), Size(1, 1), on)

InitNormalize ==
    \E pa, pb \in Coordinates \X Coordinates, ea, eb \in BOOLEAN :
        InitWith(Some(DocFull), <<OutputAt("A", pa, ea), OutputAt("B", pb, eb)>>)

NextNormalize ==
    \/ Free(Normalize)
    \/ Free(RevertPreview)

SpecNormalize == InitNormalize /\ [][NextNormalize]_vars

\* C12: after Normalize with at least one enabled output, the least shown x
\* and the least shown y over the enabled outputs are both 0, the difference
\* between the shown positions of any two enabled outputs is what it was, and
\* a second Normalize changes no shown position.
C12_NormalizeAnchorsAtOrigin ==
    [][(last'.msg = "Normalize" /\ enabled_outputs(outputs) # {}) =>
          LET on == enabled_outputs(outputs)
              before == shown_positions(outputs, pending_changes)
              after == shown_positions(outputs', pending_changes')
          IN /\ Min({ after[i].x : i \in on }) = 0
             /\ Min({ after[i].y : i \in on }) = 0
             /\ \A i, j \in on :
                   /\ after[i].x - after[j].x = before[i].x - before[j].x
                   /\ after[i].y - after[j].y = before[i].y - before[j].y
             /\ shown_positions(outputs', normalized(outputs', pending_changes')) = after
         ]_vars

\* the step is a move, a snap or a Normalize
CanvasEdit == last'.msg \in {"MoveOutput", "Normalize"} \cup SnapMessages

\* C13: Normalize, MoveOutput and the snap messages change no base position
\* and do not touch the document or the file.  Normalize changes no shown
\* position of a disabled output, adds or changes overlay entries only under
\* the names of enabled outputs, and changes nothing when no output is enabled.
C13_CanvasEditsStayInOverlay ==
    [][CanvasEdit =>
          /\ UNCHANGED <<outputs, config, file, backup>>
          /\ last'.msg = "Normalize" =>
                LET on == enabled_outputs(outputs)
                    names == { outputs[i].name : i \in on }
                    before == shown_positions(outputs, pending_changes)
                    after == shown_positions(outputs', pending_changes')
                IN /\ \A i \in 1..Len(outputs) \ on : after[i] = before[i]
                   /\ \A n \in DOMAIN pending_changes' \ names :
                         n \in DOMAIN pending_changes
                         /\ pending_changes'[n] = pending_changes[n]
                   /\ DOMAIN pending_changes \subseteq DOMAIN pending_changes'
                   /\ on = {} => UNCHANGED <<pending_changes, selected_index>>
         ]_vars

\* Normalize ran while the disabled output D had an unsaved position of its
\* own and the enabled outputs were off the origin: D kept its position
C13_Witness ==
    /\ last.msg = "Normalize"
    /\ Len(outputs) = 3
    /\ DOMAIN pending_changes = {"D", "A", "B"}
    /\ pending_changes["D"] = Position(0 - 1, 1)
    /\ pending_changes["A"] = Position(0, 0)
    /\ pending_changes["B"] = Position(1, 1)

----------------------------------------------------------------------------
(* The appearance list: selecting, editing, resetting and saving settings *)

MaxAppSteps == 3
MaxFieldIndex == 4

EditTexts == {Digits(7), Text("")}

CountedApp(A) == steps < MaxAppSteps /\ A /\ steps' = steps + 1

InitAppearance == InitWith(Some(DocFull), NiriOutputs)

NextAppearance ==
    \/ Free(SwitchCategory("Appearance"))
    \/ Free(SelectNextAppearanceSetting) /\ app_selected_index' <= MaxFieldIndex
    \/ Free(SelectPrevAppearanceSetting) /\ app_selected_index' <= MaxFieldIndex
    \/ CountedApp(ToggleSection)
    \/ CountedApp(StartAppearanceEdit)
    \/ \E v \in EditTexts : Free(AppearanceEditInput(v))
    \/ Free(CancelAppearanceEdit)
    \/ CountedApp(ConfirmAppearanceEdit)
    \/ CountedApp(ToggleAppearanceBool)
    \/ CountedApp(IncrementValue)
    \/ CountedApp(CycleEnumForward)
    \/ CountedApp(ResetAppearance)
    \/ CountedApp(Save)
    \/ CountedApp(Reload)

SpecAppearance == InitAppearance /\ [][NextAppearance]_vars

\* C14: the appearance pending-change list holds at most one entry per field,
\* and each entry's value is the field's current value in the working settings.
C14_OnePendingEntryPerField ==
    /\ \A i, j \in 1..Len(app_pending_changes) :
          app_pending_changes[i].field = app_pending_changes[j].field => i = j
    /\ \A i \in 1..Len(app_pending_changes) :
          app_pending_changes[i].value =
              get_field_value(settings, app_pending_changes[i].field)

\* the gaps were changed, then the focus ring switched off, then the gaps
\* changed again: the second gaps entry took the place of the first
C14_Witness ==
    /\ Len(app_pending_changes) = 2
    /\ app_pending_changes[1].field = "FocusRingOff"
    /\ app_pending_changes[2].field = "Gaps"
    /\ app_pending_changes[2].value = FieldValue("Integer", 18)

----------------------------------------------------------------------------
(* The three overlays and the two ways of dropping one without saving *)

NextRevert ==
    \/ Free(SelectNextOutput)
    \/ Counted(MoveOutput(1, 0)) /\ PositionsInRange
    \/ Counted(DeleteKeybinding) /\ PendingInBound
    \/ Free(SelectNextAppearanceSetting) /\ app_selected_index' <= MaxAppSelect
    \/ Counted(IncrementValue)
    \/ Counted(RevertPreview)
    \/ Counted(ResetAppearance)

SpecRevert == Init /\ [][NextRevert]_vars

\* C15: RevertPreview leaves the position overlay empty, so that every output
\* is shown at its base position; the appearance reset leaves the working
\* settings equal to the original ones and the pending list empty.  Neither
\* changes the document, the file, the backup, the base state (outputs,
\* bindings, original settings) or the overlay of another domain.
C15_RevertOnlyDropsTheOverlay ==
    [][/\ last'.msg = "RevertPreview" =>
             /\ pending_changes' = <<>>
             /\ \A i \in 1..Len(outputs') :
                   shown_positions(outputs', pending_changes')[i] = outputs'[i].position
             /\ UNCHANGED <<outputs, bindings, kb_pending_changes, settings,
                            original_settings, app_pending_changes, docVars>>
       /\ last'.msg = "ResetAppearance" =>
             /\ settings' = original_settings'
             /\ app_pending_changes' = <<>>
             /\ UNCHANGED <<original_settings, outputs, pending_changes, bindings,
                            kb_pending_changes, docVars>>
      ]_vars

\* the appearance reset dropped a change while a moved output and a deleted
\* binding were waiting in the other two overlays
C15_Witness ==
    /\ last.msg = "ResetAppearance" /\ last.result = "dropped"
    /\ settings = original_settings
    /\ pending_changes # <<>>
    /\ kb_pending_changes # <<>>

----------------------------------------------------------------------------
(* The keybinding list over a configuration that has no binds block *)

InitNoBinds == InitWith(Some(DocBare), NiriOutputs)

SpecNoBinds == InitNoBinds /\ [][NextKeybindings]_vars

\* C16: when the document has no top-level binds block, write_keybindings
\* returns an error for every change list and leaves the document as it was;
\* a Save of the keybinding overlay then fails, writes neither the file nor
\* a backup, and keeps the overlay and the base list.
C16_NoBindsBlockIsAnError ==
    [][(IsSome(config) /\ binds_idx(Unwrap(config)) = 0) =>
          /\ \A cs \in SeqsUpTo(Changes, 2) :
                write_keybindings_doc(Unwrap(config), cs) = [ok |-> FALSE, doc |-> Unwrap(config)]
          /\ (last'.msg = "Save" /\ current_category = "Keybindings"
                  /\ kb_pending_changes # <<>>) =>
                /\ last'.result = "failed"
                /\ IsSome(error')
                /\ UNCHANGED <<config, file, backup, kb_pending_changes, bindings>>
      ]_vars

\* a binding was added over a configuration without a binds block and Save
\* was pressed: the Add is still pending and nothing was written
C16_Witness ==
    /\ last.msg = "Save" /\ last.result = "failed" /\ last.io = "none"
    /\ current_category = "Keybindings"
    /\ IsSome(config) /\ binds_idx(Unwrap(config)) = 0
    /\ Len(kb_pending_changes) = 1
    /\ kb_pending_changes[1].kind = "Add"
    /\ file = Some(DocBare)
    /\ backup = None

----------------------------------------------------------------------------
(* Gradients and solid colours of the focus-ring and border blocks: the
   settings are loaded from a layout block whose focus-ring or border block
   holds solid and gradient children, a colour field is set, and the
   appearance is saved. *)

MaxColorEdits == 1     \* calls of set_field_value made on the loaded settings

Blocks == {"focus-ring", "border"}
Slots == {"active", "inactive"}

NewGradient == Gradient("#0f0", "#fff", None, None, None)

\* the children a block of the explored files is made of
SolidNode(slot) == Node(slot \o "-color", <<KdlString(<<"#abc">>)>>, <<>>, None)
GradientNode(slot) ==
    Node(slot \o "-gradient", <<>>,
         <<[k |-> "from", val |-> KdlString(<<"#f00">>)],
           [k |-> "to", val |-> KdlString(<<"#00f">>)],
           [k |-> "angle", val |-> KdlInteger(45)]>>, None)
SlotNodes == { SolidNode(slot) : slot \in Slots } \cup { GradientNode(slot) : slot \in Slots }

LayoutWith(block, children) ==
    <<[name |-> "layout", arg |-> None,
       children |-> Some(<<Node(block, <<>>, <<>>, Some(children))>>)]>>

GradientFiles == { LayoutWith(block, children) : block \in Blocks, children \in SeqsUpTo(SlotNodes, 2) }

\* the colour field of a slot, and the values a caller sets it to
ColorField(block, slot) ==
    CASE block = "focus-ring" /\ slot = "active" -> "FocusRingActiveColor"
      [] block = "focus-ring" /\ slot = "inactive" -> "FocusRingInactiveColor"
      [] block = "border" /\ slot = "active" -> "BorderActiveColor"
      [] OTHER -> "BorderInactiveColor"
ColorInputs == {Solid("#123"), NewGradient}

InitGradient ==
    \E doc \in GradientFiles :
        /\ InitWith(Some(doc), NiriOutputs)

\* a call of AppearanceViewModel::set_field_value with a colour
CallSetFieldValue(field, value) ==
    /\ steps < MaxColorEdits
    /\ steps' = steps + 1
    /\ LET r == set_field_value(settings, app_pending_changes, field, FieldValue("Color", value))
       IN /\ settings' = r.settings
          /\ app_pending_changes' = r.pending_changes
    /\ last' = Last("set_field_value", "done")
    /\ UNCHANGED <<original_settings, app_selected_index, collapsed_sections, app_edit_mode,
                   current_category, error, outVars, kbVars, docVars, niri_outputs, ret>>

NextGradient ==
    \/ Free(SwitchCategory("Appearance"))
    \/ \E block \in Blocks, slot \in Slots, value \in ColorInputs :
          CallSetFieldValue(ColorField(block, slot), value)
    \/ Free(Save)
    \/ Free(Reload)

SpecGradient == InitGradient /\ [][NextGradient]_vars

\* the children of a focus-ring or border block of the document
BlockChildren(doc, block) == block_children(block_children(doc, "layout"), block)

\* the slot has a solid-colour entry: a "*-color" child with a colour string
HasSolid(doc, block, slot) ==
    \E i \in 1..Len(BlockChildren(doc, block)) :
        /\ BlockChildren(doc, block)[i].name = slot \o "-color"
        /\ IsSome(parse_color_value(BlockChildren(doc, block)[i]))

\* the slot has a gradient entry: a "*-gradient" child with from and to
HasGradient(doc, block, slot) ==
    \E i \in 1..Len(BlockChildren(doc, block)) :
        /\ BlockChildren(doc, block)[i].name = slot \o "-gradient"
        /\ IsSome(parse_gradient(BlockChildren(doc, block)[i]))

BlockSettings(s, block) == IF block = "focus-ring" THEN s.focus_ring ELSE s.border
SlotColor(s, block, slot) ==
    IF slot = "active" THEN BlockSettings(s, block).active_color
    ELSE BlockSettings(s, block).inactive_color
SlotGradient(s, block, slot) ==
    IF slot = "active" THEN BlockSettings(s, block).active_gradient
    ELSE BlockSettings(s, block).inactive_gradient

\* the step is a Save of the appearance that wrote the file
AppearanceWritten ==
    /\ last'.msg = "Save" /\ last'.result = "ok"
    /\ current_category = "Appearance"
    /\ IsSome(config)
    /\ config' = Some(write_appearance_doc(Unwrap(config), settings))

\* C17: when a slot of the focus-ring or border block holds a solid colour
\* in the document and the settings written hold a Gradient for the slot,
\* reading the written document back yields that Gradient for the slot and
\* the document holds no solid-colour entry for it.
C17_GradientWrittenOverSolidReadsBack ==
    [][\A block \in Blocks, slot \in Slots :
          (/\ AppearanceWritten
           /\ HasSolid(Unwrap(config), block, slot)
           /\ ~HasGradient(Unwrap(config), block, slot)
           /\ SlotColor(settings, block, slot).kind = "Gradient") =>
              /\ SlotColor(parse_appearance(Unwrap(config')), block, slot)
                    = SlotColor(settings, block, slot)
              /\ ~HasSolid(Unwrap(config'), block, slot)
      ]_vars

\* C18: after a written appearance no slot has both a gradient entry and a
\* solid-colour entry in the document, and a slot that was loaded as a
\* gradient and set to a Solid colour reads back as that Solid colour.
C18_GradientAndSolidNeverCoexist ==
    [][\A block \in Blocks, slot \in Slots :
          AppearanceWritten =>
              /\ ~(HasSolid(Unwrap(config'), block, slot)
                      /\ HasGradient(Unwrap(config'), block, slot))
              /\ (/\ SlotColor(original_settings, block, slot).kind = "Gradient"
                  /\ SlotColor(settings, block, slot).kind = "Solid") =>
                    /\ ~HasGradient(Unwrap(config'), block, slot)
                    /\ SlotColor(parse_appearance(Unwrap(config')), block, slot)
                          = SlotColor(settings, block, slot)
      ]_vars

\* C19: when a block of the loaded document holds both a "*-gradient" and a
\* "*-color" child for a slot, in either order, the loaded settings hold
\* the gradient as the slot's colour and as its gradient detail.
C19_GradientTakesPrecedence ==
    \A block \in Blocks, slot \in Slots :
        (/\ last.msg \in {"new", "Reload"}
         /\ last.result \in {"done", "ok"}
         /\ IsSome(config)
         /\ HasSolid(Unwrap(config), block, slot)
         /\ HasGradient(Unwrap(config), block, slot)) =>
            /\ SlotColor(settings, block, slot).kind = "Gradient"
            /\ SlotGradient(settings, block, slot) = Some(SlotColor(settings, block, slot))

----------------------------------------------------------------------------
(* The error message: actions that fail and actions that succeed, taken
   from a state with or without an error *)

MaxErrorSteps == 2     \* moves of the selected output
ErrorTexts == {"boom"}

NextErrors ==
    \/ \E c \in {"Outputs", "Appearance"} : Free(SwitchCategory(c))
    \/ \E e \in ErrorTexts : Free(MessageError(e))
    \/ Free(ClearError)
    \/ Free(RefreshOutputs)
    \/ Free(PreviewChanges)
    \/ Free(RevertPreview)
    \/ steps < MaxErrorSteps /\ MoveOutput(1, 0) /\ steps' = steps + 1 /\ PositionsInRange
    \/ Free(Save)
    \/ Free(Reload)

SpecErrors == Init /\ [][NextErrors]_vars

\* the step completed successfully: a Reload that loaded the outputs and the
\* file, a refresh, a preview that reached every output, a move, or a Save
\* that wrote the file and reloaded the compositor
CompletedSuccessfully ==
    \/ last'.msg \in {"Reload", "RefreshOutputs", "PreviewChanges"} /\ last'.result = "ok"
    \/ last'.msg = "MoveOutput" /\ pending_changes' # pending_changes
    \/ last'.msg = "Save" /\ last'.result = "ok" /\ last'.reload = "ok"

\* C20: the application holds one error message; a new error replaces the
\* one held, and an error held is cleared by the next action that completes
\* successfully or by ClearError.
C20_ErrorClearedByNextSuccess ==
    [][/\ Len(error') <= 1
       /\ \A e \in ErrorTexts : (last'.msg = "Error" /\ MessageError(e)) => error' = Some(e)
       /\ last'.msg = "ClearError" => error' = None
       /\ (IsSome(error) /\ CompletedSuccessfully) => error' = None
      ]_vars

----------------------------------------------------------------------------
(* Failing compositor calls *)

\* the step is a Reload, RefreshOutputs or PreviewChanges whose compositor
\* call failed
CompositorCallFailed ==
    \/ last'.msg \in {"Reload", "RefreshOutputs"} /\ last'.result = "failed"
    \/ last'.msg = "PreviewChanges" /\ last'.result \in {"noconnection", "failed"}

\* C21: when the compositor call of a Reload, RefreshOutputs or
\* PreviewChanges fails, the failure becomes the error message and the
\* outputs, the base states, the document and the three overlays are as
\* they were before the message.
C21_FailedCompositorCallChangesNothing ==
    [][CompositorCallFailed =>
          /\ IsSome(error')
          /\ UNCHANGED <<outputs, bindings, original_settings, settings, config,
                         pending_changes, kb_pending_changes, app_pending_changes>>
      ]_vars

----------------------------------------------------------------------------
(* The compositor's reload after a Save *)

\* C22: the compositor is asked to reload its configuration once by each
\* keybinding or appearance Save that has written the file, with the file
\* already holding the saved document; no other step asks for it: not a
\* failed Save, not a Save with an empty overlay (which writes neither the
\* file nor a backup), not a Save of positions.
C22_ReloadOnlyAfterWrittenSave ==
    [][/\ last'.reload # "none" <=>
             /\ last'.msg = "Save"
             /\ last'.result = "ok"
             /\ current_category \in {"Keybindings", "Appearance"}
       /\ last'.reload # "none" =>
             /\ last'.io = "none"
             /\ IsSome(file')
             /\ file' = config'
       /\ (last'.msg = "Save" /\ last'.result = "noop") => UNCHANGED <<file, backup, config>>
      ]_vars

\* a keybinding Save has written the file, kept the old one as the backup
\* and the compositor has reloaded
C22_Witness ==
    /\ last.msg = "Save" /\ last.result = "ok" /\ last.reload = "ok"
    /\ current_category = "Keybindings"
    /\ IsSome(file) /\ file = config
    /\ backup = Some(DocFull)
    /\ kb_pending_changes = <<>>
    /\ Len(bindings) = 2

----------------------------------------------------------------------------
(* parse_appearance on layout blocks whose children have the right or the
   wrong type of value *)

\* the recognised children explored: the block, the child's name, the field
\* of the block's settings it sets and the type of value it wants
Recognised ==
    { [block |-> "focus-ring", node |-> "width", field |-> "width", t |-> "Integer"],
      [block |-> "focus-ring", node |-> "active-color", field |-> "active_color", t |-> "String"],
      [block |-> "border", node |-> "width", field |-> "width", t |-> "Integer"],
      [block |-> "border", node |-> "active-color", field |-> "active_color", t |-> "String"],
      [block |-> "border", node |-> "urgent-color", field |-> "urgent_color", t |-> "String"],
      [block |-> "shadow", node |-> "draw-behind-window", field |-> "draw_behind_window", t |-> "Bool"],
      [block |-> "shadow", node |-> "softness", field |-> "softness", t |-> "Integer"],
      [block |-> "struts", node |-> "left", field |-> "left", t |-> "Integer"] }

\* the values a child is given, by number
FieldArg(k) ==
    CASE k = 1 -> KdlInteger(8)
      [] k = 2 -> KdlString(<<"#abc">>)
      [] OTHER -> KdlBool(TRUE)

\* the children explored for a block: (recognised child, number of its value)
FieldChoices(block) == { r \in Recognised : r.block = block } \X (1..3)

FieldNodes(choices) ==
    [i \in 1..Len(choices) |-> Node(choices[i][1].node, <<FieldArg(choices[i][2])>>, <<>>, None)]

InitParse ==
    \E block \in { r.block : r \in Recognised } :
        \E choices \in SeqsUpTo(FieldChoices(block), 2) :
            InitWith(Some(LayoutWith(block, FieldNodes(choices))), NiriOutputs)

\* a call of parse_appearance on the loaded document
CallParseAppearance ==
    /\ ret = None
    /\ ret' = Some(parse_appearance(Unwrap(config)))
    /\ last' = Last("parse_appearance", "done")
    /\ UNCHANGED <<current_category, error, outVars, kbVars, appVars, docVars, niri_outputs, steps>>

NextParse == CallParseAppearance

SpecParse == InitParse /\ [][NextParse]_vars

\* the settings of a block, by the block's name
BlockOf(s, block) ==
    CASE block = "focus-ring" -> s.focus_ring
      [] block = "border" -> s.border
      [] block = "shadow" -> s.shadow
      [] OTHER -> s.struts

\* the value a field takes from a child's argument of the right type
FieldFrom(r, arg) ==
    CASE r.field = "active_color" -> Solid(arg.v[1])
      [] r.field = "urgent_color" -> Some(Solid(arg.v[1]))
      [] r.field = "left" -> Some(arg.v[1])
      [] OTHER -> arg.v[1]

\* the children of the block that are named after the field
ChildrenFor(doc, r) ==
    SelectSeq(block_children(block_children(doc, "layout"), r.block), LAMBDA n : n.name = r.node)

\* C23: parse_appearance returns settings for every document; a recognised
\* field whose child is absent or holds a value of the wrong type has its
\* default value (border urgent-color included), and a field whose one
\* child holds a value of the right type has that value.
C23_WrongTypeLeavesDefault ==
    (last.msg = "parse_appearance") =>
        /\ IsSome(ret)
        /\ \A r \in Recognised :
            LET cs == ChildrenFor(Unwrap(config), r)
                parsed == BlockOf(Unwrap(ret), r.block)[r.field]
            IN /\ (\A i \in 1..Len(cs) : cs[i].args[1].t # r.t) =>
                      parsed = BlockOf(DefaultSettings, r.block)[r.field]
               /\ (Len(cs) = 1 /\ cs[1].args[1].t = r.t) => parsed = FieldFrom(r, cs[1].args[1])

----------------------------------------------------------------------------
(* A binds block with entries that fail to parse *)

\* a binding without an action child, and a spawn without arguments
BindNoAction == [name |-> <<"Mod", "B">>, props |-> NoProperties, children |-> None]
BindSpawnNoArgs ==
    [name |-> <<"Mod", "S">>, props |-> NoProperties,
     children |-> Some(<<[name |-> "spawn", args |-> <<>>]>>)]

SkippedFiles ==
    { <<[name |-> "binds", arg |-> None, children |-> Some(<<BindNoAction, BindQ, BindT>>)]>>,
      <<[name |-> "binds", arg |-> None, children |-> Some(<<BindQ, BindSpawnNoArgs, BindT>>)]>>,
      <<[name |-> "binds", arg |-> None, children |-> Some(<<BindQ, BindT, BindF>>)]>> }

InitSkipped == \E doc \in SkippedFiles : InitWith(Some(doc), NiriOutputs)

SpecSkipped == InitSkipped /\ [][NextKeybindings]_vars

\* C24: the index recorded in a pending Delete or Modify of a base binding
\* is the position, among the children of the document's binds node, of the
\* node the binding was parsed from, also when entries of the block were
\* skipped by the parser.
C24_RecordedIndexIsTheNodePosition ==
    [][\A i \in 1..Len(kb_pending_changes') :
          LET c == kb_pending_changes'[i] IN
          (c.kind \in {"Delete", "Modify"} /\ c.index < Len(bindings')) =>
              bindings'[c.index + 1].kdl_index = Some(c.index)
      ]_vars

----------------------------------------------------------------------------
(* The three writers called on documents with an output node, a binds block
   and, in some, a layout block *)

MaxBinds == 3          \* entries of the binds block
MaxDeletes == 3        \* entries of a change list

WriteFiles ==
    { <<OutputNode("output", "A", Some(<<PosNode(Position(0, 0))>>)),
        [name |-> "binds", arg |-> None, children |-> Some(children)]>> \o tail :
        children \in SeqsUpTo({BindQ, BindT, BindF}, MaxBinds),
        tail \in { <<>>,
                   <<[name |-> "layout", arg |-> None,
                      children |-> Some(<<Node("gaps", <<KdlInteger(16)>>, <<>>, None)>>)],
                     [name |-> "prefer-no-csd", arg |-> None, children |-> None]>> } }

\* the change lists, position maps and settings the writers are called with
DeleteLists == SeqsUpTo({ Delete(i) : i \in 0..MaxBinds }, MaxDeletes)
MixedLists == { <<Modify(0, BindingX)>>, <<Add(BindingX)>>, <<Add(BindingY), Delete(0)>> }
PositionMaps ==
    { [n \in names |-> Position(1, 0)] : names \in (SUBSET {"A", "B"}) \ {{}} }
SettingsInputs == { DefaultSettings, [DefaultSettings EXCEPT !.gaps = 8, !.border.off = FALSE] }

InitWrite == \E doc \in WriteFiles : InitWith(Some(doc), NiriOutputs)

\* the end of each writer: config.save() on the edited document
SavedAs(doc, msg) ==
    \E o \in save(doc, file, backup) :
        /\ config' = Some(doc)
        /\ file' = o.file
        /\ backup' = o.backup
        /\ last' = Last(msg, IF o.ok THEN "ok" ELSE "failed")

\* a call of keybindings_writer::write_keybindings
CallWriteKeybindings(changes) ==
    /\ ret = None
    /\ ret' = Some(changes)
    /\ LET w == write_keybindings_doc(Unwrap(config), changes) IN
       IF w.ok THEN SavedAs(w.doc, "write_keybindings")
       ELSE /\ last' = Last("write_keybindings", "failed")
            /\ UNCHANGED docVars
    /\ UNCHANGED <<current_category, error, outVars, kbVars, appVars, niri_outputs, steps>>

\* a call of config::writer::write_positions
CallWritePositions(positions) ==
    /\ ret = None
    /\ ret' = Some(positions)
    /\ \E order \in Orders(DOMAIN positions) :
          SavedAs(write_positions_doc(Unwrap(config), positions, order), "write_positions")
    /\ UNCHANGED <<current_category, error, outVars, kbVars, appVars, niri_outputs, steps>>

\* a call of appearance_writer::write_appearance
CallWriteAppearance(s) ==
    /\ ret = None
    /\ ret' = Some(s)
    /\ SavedAs(write_appearance_doc(Unwrap(config), s), "write_appearance")
    /\ UNCHANGED <<current_category, error, outVars, kbVars, appVars, niri_outputs, steps>>

NextWrite ==
    \/ \E changes \in DeleteLists \cup MixedLists : CallWriteKeybindings(changes)
    \/ \E positions \in PositionMaps : CallWritePositions(positions)
    \/ \E s \in SettingsInputs : CallWriteAppearance(s)

SpecWrite == InitWrite /\ [][NextWrite]_vars

\* the children of the document's binds node
binds_children(doc) == Unwrap(doc[binds_idx(doc)].children)

RECURSIVE Without(_, _, _)
\* the sequence without the entries at the 0-based indices in S, from index i on
Without(s, S, i) ==
    IF i >= Len(s) THEN <<>>
    ELSE (IF i \in S THEN <<>> ELSE <<s[i + 1]>>) \o Without(s, S, i + 1)

\* the change list holds only Delete entries, with distinct indices inside
\* the block
DistinctDeletes(changes, children) ==
    /\ changes # <<>>
    /\ \A i \in 1..Len(changes) : changes[i].kind = "Delete" /\ changes[i].index < Len(children)
    /\ \A i, j \in 1..Len(changes) : i # j => changes[i].index # changes[j].index

\* C25: for a change list of Delete entries with distinct indices inside
\* the block, in any order, write_keybindings removes the nodes that were
\* at those indices and leaves the other entries in their order.
C25_DeletesRemoveExactlyTheirNodes ==
    [][(last'.msg = "write_keybindings"
          /\ DistinctDeletes(Unwrap(ret'), binds_children(Unwrap(config)))) =>
          binds_children(Unwrap(config'))
             = Without(binds_children(Unwrap(config)),
                       { Unwrap(ret')[i].index : i \in 1..Len(Unwrap(ret')) }, 0)
      ]_vars

\* Delete(0) was declared before Delete(2) on a block of three entries and
\* the middle entry is what is left
C25_Witness ==
    /\ last.msg = "write_keybindings" /\ last.result = "ok"
    /\ ret = Some(<<Delete(0), Delete(2)>>)
    /\ binds_children(Unwrap(config)) = <<BindT>>
    /\ backup # None
    /\ Len(Unwrap(backup)) = 2
    /\ binds_children(Unwrap(backup)) = <<BindQ, BindT, BindF>>

----------------------------------------------------------------------------
(* Editing the keybindings under a search filter *)

\* what the user types into the search field
SearchQueries == {"T", "F"}

NextSearch ==
    \/ Free(SwitchCategory("Keybindings"))
    \/ \E q \in SearchQueries : Free(UpdateSearch(q))
    \/ Free(ClearSearch)
    \/ Free(SelectNextKeybinding)
    \/ Free(StartEdit)
    \/ Free(CancelEdit)
    \/ \E k \in KeyCombos, a \in ActionInputs : Free(EditInput(k, a.type, a.value))
    \/ CountedKb(ConfirmEdit) /\ PendingInBound
    \/ CountedKb(DeleteKeybinding) /\ PendingInBound

SpecSearch == InitKeybindings /\ [][NextSearch]_vars

\* the row of the filtered view under the selection
SelectedRow == filtered_bindings(bindings, kb_pending_changes, search_query)[kb_selected_index + 1]

HasSelectedRow ==
    kb_selected_index < Len(filtered_bindings(bindings, kb_pending_changes, search_query))

\* i is the index in the base list of the binding the row shows
IsBaseIndexOf(i, row) ==
    /\ i < Len(bindings)
    /\ row.original_index = Some(i)
    /\ row.status = "Unchanged" => bindings[i + 1] = row.binding

\* C26: with a search filter active, deleting or editing the selected base
\* binding records the binding's index in the base list, not its row in
\* the filtered view.
C26_ChangesAddressTheBaseList ==
    [][/\ (search_query # "" /\ HasSelectedRow /\ IsSome(SelectedRow.original_index)) =>
             /\ (last'.msg = "DeleteKeybinding" /\ last'.result = "done") =>
                   /\ Len(kb_pending_changes') = Len(kb_pending_changes) + 1
                   /\ kb_pending_changes'[Len(kb_pending_changes')].kind = "Delete"
                   /\ IsBaseIndexOf(kb_pending_changes'[Len(kb_pending_changes')].index,
                                    SelectedRow)
             /\ (last'.msg = "StartEdit" /\ IsSome(edit_mode')) =>
                   /\ ~Unwrap(edit_mode').is_new
                   /\ IsBaseIndexOf(Unwrap(edit_mode').original_index, SelectedRow)
       /\ (last'.msg = "ConfirmEdit" /\ last'.result = "done" /\ ~Unwrap(edit_mode).is_new) =>
             kb_pending_changes' = Append(kb_pending_changes,
                                          [kind |-> "Modify",
                                           index |-> Unwrap(edit_mode).original_index,
                                           new |-> kb_pending_changes'[Len(kb_pending_changes')].new])
      ]_vars

\* under the filter "T" the only row is Mod+T, the second binding of the
\* file: it was edited and then deleted, both recorded with index 1
C26_Witness ==
    /\ search_query = "T"
    /\ Len(kb_pending_changes) = 2
    /\ kb_pending_changes[1].kind = "Modify" /\ kb_pending_changes[1].index = 1
    /\ kb_pending_changes[2] = Delete(1)
    /\ last.msg = "DeleteKeybinding"
    /\ bindings[2].key = "T"

----------------------------------------------------------------------------
(* Deleting a binding that was added and not yet saved *)

\* C27: deleting the selected Added binding removes that one pending Add
\* and leaves every other pending change in place, also when another
\* pending Add has the same key combo.
C27_DeleteRemovesOneAdd ==
    [][(/\ last'.msg = "DeleteKeybinding" /\ last'.result = "done"
        /\ HasSelectedRow
        /\ SelectedRow.original_index = None) =>
          \E j \in 1..Len(kb_pending_changes) :
              /\ kb_pending_changes[j].kind = "Add"
              /\ kb_pending_changes[j].new = Some(SelectedRow.binding)
              /\ kb_pending_changes' = remove_at(kb_pending_changes, j - 1)
      ]_vars

----------------------------------------------------------------------------
(* Edits that fail validation: the keybinding form and the appearance
   value editor, each in its category *)

MaxEdits == 2          \* confirmations and section toggles in one run

\* what the user leaves in the keybinding form, the empty fields included
FormCombos == {<<"Ctrl", "X">>, <<"">>}
FormActions == {<<"quit">>, <<>>}

CountedEdit(A) == steps < MaxEdits /\ A /\ steps' = steps + 1

NextValidation ==
    \/ \E c \in {"Keybindings", "Appearance"} : Free(SwitchCategory(c))
    \/ current_category = "Keybindings" /\
          \/ Free(AddKeybinding)
          \/ Free(StartEdit)
          \/ \E k \in FormCombos, a \in FormActions : Free(EditInput(k, "BuiltIn", a))
          \/ Free(CancelEdit)
          \/ CountedEdit(ConfirmEdit)
    \/ current_category = "Appearance" /\
          \/ Free(SelectNextAppearanceSetting) /\ app_selected_index' <= MaxFieldIndex
          \/ Free(ToggleSection)
          \/ CountedEdit(StartAppearanceEdit)
          \/ \E v \in EditTexts : Free(AppearanceEditInput(v))
          \/ Free(CancelAppearanceEdit)
          \/ CountedEdit(ConfirmAppearanceEdit)

SpecValidation == InitAppearance /\ [][NextValidation]_vars

\* the confirmed keybinding form has an empty key combo or an empty action
InvalidKeybindingForm ==
    /\ IsSome(edit_mode)
    /\ Unwrap(edit_mode).key_combo = <<"">> \/ Unwrap(edit_mode).action_value = <<>>

\* the confirmed appearance value is not a number for an integer field, or
\* is empty for a colour field
InvalidAppearanceValue ==
    /\ IsSome(app_edit_mode)
    /\ \/ is_integer(Unwrap(app_edit_mode).field) /\ ~Unwrap(app_edit_mode).value.num
       \/ is_color(Unwrap(app_edit_mode).field) /\ Unwrap(app_edit_mode).value = Text("")

\* C28: a confirmed edit that fails validation sets an error message,
\* records no pending change, leaves the working state as it was and keeps
\* the edit dialog open with what was typed.
C28_InvalidEditKeepsDialogOpen ==
    [][/\ (last'.msg = "ConfirmEdit" /\ last'.result # "noop" /\ InvalidKeybindingForm) =>
             /\ IsSome(error')
             /\ UNCHANGED <<kb_pending_changes, bindings, edit_mode, config, file>>
       /\ (last'.msg = "ConfirmAppearanceEdit" /\ InvalidAppearanceValue) =>
             /\ IsSome(error')
             /\ UNCHANGED <<app_pending_changes, settings, original_settings, app_edit_mode,
                            config, file>>
      ]_vars

\* the colour editor was confirmed with an empty value while the form of a
\* new binding is open with nothing typed: the error is set, both dialogs
\* are still open and no change was recorded
C28_Witness ==
    /\ last.msg = "ConfirmAppearanceEdit" /\ last.result = "failed"
    /\ error = Some("Color value cannot be empty")
    /\ IsSome(app_edit_mode)
    /\ is_color(Unwrap(app_edit_mode).field)
    /\ Unwrap(app_edit_mode).value = Text("")
    /\ IsSome(edit_mode)
    /\ Unwrap(edit_mode).is_new
    /\ Unwrap(edit_mode).key_combo = <<"">>
    /\ steps = 2
    /\ kb_pending_changes = <<>> /\ app_pending_changes = <<>>

----------------------------------------------------------------------------
(* Previewing the pending positions *)

MaxPreviewSteps == 2   \* moves and saves in one run

NextPreview ==
    \/ Free(SelectNextOutput)
    \/ \E m \in Moves : steps < MaxPreviewSteps /\ MoveOutput(m[1], m[2])
                           /\ steps' = steps + 1 /\ PositionsInRange
    \/ Free(PreviewChanges)
    \/ Free(RevertPreview)
    \/ steps < MaxPreviewSteps /\ Save /\ steps' = steps + 1

SpecPreview == InitWith(Some(DocFull), NiriOutputs) /\ [][NextPreview]_vars

\* the position the compositor holds for the output named
niri_position(outs, name) ==
    LET i == CHOOSE i \in 1..Len(outs) : outs[i].name = name IN outs[i].position

\* the pending positions the compositor holds after the step
Applied == { n \in DOMAIN pending_changes :
                niri_position(niri_outputs', n) = pending_changes[n] }

\* C29: PreviewChanges persists nothing: the document, the file, its backup,
\* the position overlay and the base positions are as before. With an empty
\* overlay nothing is sent; a preview that succeeds has sent every pending
\* position, one request each; a failed one has sent the positions of some of
\* the pending outputs and stopped at the first request that failed; without
\* a connection nothing is sent. No output outside the overlay is touched.
C29_PreviewPersistsNothing ==
    [][last'.msg = "PreviewChanges" =>
          /\ UNCHANGED <<config, file, backup, pending_changes, outputs, selected_index>>
          /\ UNCHANGED <<bindings, kb_pending_changes, settings, original_settings,
                         app_pending_changes>>
          /\ \A i \in 1..Len(niri_outputs) :
                niri_outputs[i].name \notin DOMAIN pending_changes
                    => niri_outputs'[i] = niri_outputs[i]
          /\ Len(niri_outputs') = Len(niri_outputs)
          /\ (last'.result = "empty") <=> (DOMAIN pending_changes = {})
          /\ last'.result \in {"empty", "noconnection"} => UNCHANGED niri_outputs
          /\ last'.result = "ok" => Applied = DOMAIN pending_changes
          /\ last'.result = "failed" =>
                /\ IsSome(error')
                /\ \E sent \in (SUBSET DOMAIN pending_changes) \ {DOMAIN pending_changes} :
                      niri_outputs' = previewed(niri_outputs, pending_changes, sent)
          /\ last'.result \in {"empty", "noconnection", "ok", "failed"}
      ]_vars

\* two outputs were moved and the preview failed at its second request: the
\* compositor holds the pending position of one of them only, and the overlay,
\* the base positions and the file are those from before the preview
C29_Witness ==
    /\ last.msg = "PreviewChanges" /\ last.result = "failed"
    /\ DOMAIN pending_changes = {"D", "A"}
    /\ niri_position(niri_outputs, "A") = pending_changes["A"]
    /\ niri_position(niri_outputs, "D") # pending_changes["D"]
    /\ niri_position(outputs, "A") # pending_changes["A"]
    /\ file = Some(DocFull) /\ config = Some(DocFull)

\* the node is an output node, enabled or commented out, of one of the names
IsOutputOf(node, names) ==
    /\ node.name \in {"output", "/-output"}
    /\ IsSome(node.arg)
    /\ Unwrap(node.arg) \in names

\* the top-level nodes the writer called in this step may edit
Edited(node) ==
    CASE last'.msg = "write_positions" -> IsOutputOf(node, DOMAIN Unwrap(ret'))
      [] last'.msg = "write_keybindings" -> node.name = "binds"
      [] last'.msg = "write_appearance" -> node.name = "layout"
      [] OTHER -> FALSE

\* the top-level nodes of the document that the writer may not edit, in order
Untouched(doc) == SelectSeq(doc, LAMBDA node : ~Edited(node))

\* C30: a write changes only the part of the document it edits. The top-level
\* nodes other than the output nodes named in the position map (for a position
\* write), other than the binds node (for a keybinding write) and other than
\* the layout node (for an appearance write) are the same nodes, as many and
\* in the same order, after the write as before it.
C30_WriteLeavesOtherNodesAlone ==
    [][last'.msg \in {"write_positions", "write_keybindings", "write_appearance"} =>
          /\ IsSome(config')
          /\ Untouched(Unwrap(config')) = Untouched(Unwrap(config))
          /\ Len(Unwrap(config')) >= Len(Unwrap(config))
          /\ \A i \in 1..Len(Unwrap(config)) :
                ~Edited(Unwrap(config)[i]) => Unwrap(config')[i] = Unwrap(config)[i]
      ]_vars

\* a position was written for output B, which the document had no node for:
\* the node of output A, the binds node, the layout node and the flag are
\* where they were, as they were, and the node of B follows them
C30_Witness ==
    /\ last.msg = "write_positions" /\ last.result = "ok"
    /\ ret = Some([n \in {"B"} |-> Position(1, 0)])
    /\ IsSome(config) /\ Len(Unwrap(config)) = 5
    /\ Unwrap(config)[1] = OutputNode("output", "A", Some(<<PosNode(Position(0, 0))>>))
    /\ Unwrap(config)[2].name = "binds"
    /\ Unwrap(config)[2].children = Some(<<BindQ, BindT>>)
    /\ Unwrap(config)[3].name = "layout"
    /\ Unwrap(config)[4].name = "prefer-no-csd"
    /\ Unwrap(config)[5] = OutputNode("output", "B", Some(<<PosNode(Position(1, 0))>>))
    /\ file = config

----------------------------------------------------------------------------
(* A binding written as a node and parsed back.  A key is one piece of a   *)
(* combo, so no key explored contains '+'.                                  *)

\* the modifiers, keys, properties and actions of the bindings written
ModifierSets == [mod_key : BOOLEAN, ctrl : BOOLEAN, shift : BOOLEAN, alt : {FALSE}]
NodeKeys == {"X", "mod"}
PropertyChoices == (0..2) \X (0..1) \X (0..1)
BoolChoice(k) == CASE k = 0 -> None [] k = 1 -> Some(TRUE) [] OTHER -> Some(FALSE)
PropertiesOf(c) ==
    [repeat |-> BoolChoice(c[1]),
     cooldown_ms |-> IF c[2] = 0 THEN None ELSE Some(1),
     allow_when_locked |-> BoolChoice(c[3])]
ActionCount == 10
ActionOf(k) ==
    CASE k = 1 -> Spawn(<<KdlString(<<"term">>)>>)
      [] k = 2 -> Spawn(<<KdlString(<<"term">>), KdlString(<<"-e">>)>>)
      [] k = 3 -> Spawn(<<>>)
      [] k = 4 -> SpawnSh(KdlString(<<"ls", "-l">>))
      [] k = 5 -> Simple("quit")
      [] k = 6 -> WithArg("focus-workspace", KdlInteger(1))
      [] k = 7 -> WithArg("set-column-width", KdlString(<<"50%">>))
      [] k = 8 -> WithArg("toggle", KdlBool(TRUE))
      [] k = 9 -> Simple("spawn")
      [] OTHER -> WithArg("spawn", KdlString(<<"term">>))

InitNode ==
    \E m \in ModifierSets, key \in NodeKeys, c \in PropertyChoices, k \in 1..ActionCount :
        /\ current_category = "Keybindings"
        /\ niri_outputs = NiriOutputs
        /\ outputs = NiriOutputs
        /\ file = Some(DocFull)
        /\ backup = None
        /\ config = Some(DocFull)
        /\ error = None
        /\ selected_index = 0
        /\ pending_changes = <<>>
        /\ bindings = parse_keybindings(DocFull)
        /\ kb_selected_index = 0
        /\ kb_pending_changes = <<Add([modifiers |-> m, key |-> key,
                                       properties |-> PropertiesOf(c),
                                       action |-> ActionOf(k), kdl_index |-> None])>>
        /\ search_query = ""
        /\ edit_mode = None
        /\ settings = DefaultSettings
        /\ original_settings = DefaultSettings
        /\ app_pending_changes = <<>>
        /\ app_selected_index = 0
        /\ collapsed_sections = {}
        /\ app_edit_mode = None
        /\ last = NoLast
        /\ steps = 0
        /\ ret = None

\* a call of create_keybinding_node on the pending Add, and of
\* parse_single_binding on the node it returns
CallCreateKeybindingNode ==
    /\ ret = None
    /\ LET node == create_keybinding_node(Unwrap(kb_pending_changes[1].new)) IN
       ret' = Some([node |-> node, parsed |-> parse_single_binding(node, 0)])
    /\ last' = Last("create_keybinding_node", "done")
    /\ UNCHANGED <<current_category, error, outVars, kbVars, appVars, docVars,
                   niri_outputs, steps>>

NextNode == CallCreateKeybindingNode

SpecNode == InitNode /\ [][NextNode]_vars

\* the binding written
Written == Unwrap(kb_pending_changes[1].new)

\* C31: a binding whose key contains no '+' and whose Spawn argument list is
\* not empty is written as a node that is named by the binding's combo and
\* carries the properties that are set, and parse_single_binding reads from
\* that node the same modifiers, key, properties and action.
C31_NodeRoundTrip ==
    (IsSome(ret) /\ ~(Written.action.kind = "Spawn" /\ Written.action.args = <<>>)) =>
        /\ Unwrap(ret).node.name = combo(Written)
        /\ Unwrap(ret).node.props = Written.properties
        /\ IsSome(Unwrap(ret).parsed)
        /\ Unwrap(Unwrap(ret).parsed).modifiers = Written.modifiers
        /\ Unwrap(Unwrap(ret).parsed).key = Written.key
        /\ Unwrap(Unwrap(ret).parsed).properties = Written.properties
        /\ Unwrap(Unwrap(ret).parsed).action = Written.action

----------------------------------------------------------------------------
(* Edits, failed saves, discards and saves across the categories *)

MaxDiscardSteps == 2   \* edits in one run

NextDiscard ==
    \/ \E c \in Categories : Free(SwitchCategory(c))
    \/ steps < MaxDiscardSteps /\ MoveOutput(1, 0) /\ steps' = steps + 1 /\ PositionsInRange
    \/ steps < MaxDiscardSteps /\ DeleteKeybinding /\ steps' = steps + 1
    \/ Free(SelectNextAppearanceSetting) /\ app_selected_index' <= MaxAppSelect
    \/ steps < MaxDiscardSteps /\ IncrementValue /\ steps' = steps + 1 /\ settings'.gaps <= MaxGaps
    \/ Free(RevertPreview)
    \/ Free(Reload)
    \/ Free(Save)

SpecDiscard == InitWith(Some(DocFull), NiriOutputs) /\ [][NextDiscard]_vars

\* the documents that the writer of the current category makes of a document
\* and of what is pending in that category
WrittenFrom(doc) ==
    CASE current_category = "Outputs" ->
             { write_positions_doc(doc, pending_changes, order) :
                  order \in Orders(DOMAIN pending_changes) }
      [] current_category = "Keybindings" ->
             { write_keybindings_doc(doc, kb_pending_changes).doc }
      [] OTHER -> { write_appearance_doc(doc, settings) }

\* C32: the content a successful Save writes is the last loaded or saved
\* document with the changes pending in the saved category applied, and
\* nothing else: no change that was reverted, or whose Save failed, reaches
\* the file through a later Save. The file that no failed write has
\* truncated holds the last loaded or saved document.
C32_SaveWritesBasePlusOverlay ==
    [][(SaveStep("ok") /\ IsSome(file) /\ file # Some(Truncated)) =>
          /\ IsSome(file')
          /\ Unwrap(file') \in WrittenFrom(Unwrap(file))
      ]_vars

----------------------------------------------------------------------------
(* Editing the selected entry *)

\* the rows other than the selected one are what they were
OtherRowsKept ==
    LET before == effective_bindings(bindings, kb_pending_changes)
        after == effective_bindings(bindings', kb_pending_changes') IN
    /\ Len(after) = Len(before)
    /\ \A i \in 1..Len(before) : i # kb_selected_index + 1 => after[i] = before[i]

\* C33: StartEdit on the selected entry followed by ConfirmEdit changes only
\* that entry of the effective list; when the entry is a binding that was
\* added and not yet saved, no base binding is changed or marked Modified.
C33_EditChangesOnlyTheSelectedEntry ==
    [][(/\ last.msg = "StartEdit"
        /\ last'.msg = "ConfirmEdit" /\ last'.result = "done"
        /\ search_query = ""
        /\ HasSelectedRow
        /\ IsSome(edit_mode) /\ ~Unwrap(edit_mode).is_new) =>
          OtherRowsKept
      ]_vars

----------------------------------------------------------------------------
(* The selection of the keybindings list *)

MaxSelectionSteps == 2   \* confirmations, deletions and saves in one run

CountedSelection(A) == steps < MaxSelectionSteps /\ A /\ steps' = steps + 1

NextSelection ==
    \/ Free(SwitchCategory("Keybindings"))
    \/ Free(SelectNextKeybinding)
    \/ Free(SelectPrevKeybinding)
    \/ \E q \in SearchQueries : Free(UpdateSearch(q))
    \/ Free(ClearSearch)
    \/ Free(AddKeybinding)
    \/ Free(StartEdit)
    \/ \E k \in KeyCombos, a \in ActionInputs : Free(EditInput(k, a.type, a.value))
    \/ CountedSelection(ConfirmEdit)
    \/ CountedSelection(DeleteKeybinding)
    \/ CountedSelection(Save)
    \/ Free(Reload)

SpecSelection == InitKeybindings /\ [][NextSelection]_vars

\* C34: whenever the visible list of bindings is not empty, the selected
\* index is smaller than its length.
C34_SelectionInsideVisibleList ==
    visible_count > 0 => kb_selected_index < visible_count

----------------------------------------------------------------------------
(* The selection of the appearance list *)

NextSections ==
    \/ Free(SwitchCategory("Appearance"))
    \/ Free(SelectNextAppearanceSetting)
    \/ Free(SelectPrevAppearanceSetting)
    \/ Free(ToggleSection)

SpecSections == InitAppearance /\ [][NextSections]_vars

\* AppearanceViewModel::toggle_section on a set of collapsed sections
toggled(collapsed, section) ==
    IF section \in collapsed THEN collapsed \ {section} ELSE collapsed \cup {section}

\* C35: after every navigation and every collapse or expansion of a section
\* the selected index is smaller than the number of visible items. A toggle
\* on a header changes the visible list, leaves the selection on that header,
\* and the toggle of the same section that follows gives back the visible
\* list from before.
C35_SelectionInsideVisibleItems ==
    [][/\ app_selected_index < Len(visible_items(collapsed_sections))
       /\ app_selected_index' < Len(visible_items(collapsed_sections'))
       /\ (/\ last'.msg = "ToggleSection"
           /\ visible_items(collapsed_sections)[app_selected_index + 1].header) =>
             LET item == visible_items(collapsed_sections)[app_selected_index + 1] IN
             /\ collapsed_sections' = toggled(collapsed_sections, item.name)
             /\ visible_items(collapsed_sections') # visible_items(collapsed_sections)
             /\ selected_item(collapsed_sections', app_selected_index') = Some(item)
             /\ visible_items(toggled(collapsed_sections', item.name))
                   = visible_items(collapsed_sections)
       /\ (/\ last'.msg = "ToggleSection"
           /\ ~visible_items(collapsed_sections)[app_selected_index + 1].header) =>
             UNCHANGED collapsed_sections
      ]_vars

\* the Border section was collapsed and expanded again with the sections
\* before it collapsed: the selection is on its header, which is row 2
C35_Witness ==
    /\ last.msg = "ToggleSection"
    /\ collapsed_sections = {"General", "FocusRing"}
    /\ app_selected_index = 2
    /\ selected_item(collapsed_sections, app_selected_index)
          = Some([header |-> TRUE, name |-> "Border"])
    /\ Len(visible_items(collapsed_sections)) = 21

\* C36: the appearance view model has pending changes exactly when its
\* working settings differ from its original settings.
C36_PendingIffSettingsDiffer ==
    (app_pending_changes # <<>>) <=> (settings # original_settings)

----------------------------------------------------------------------------
(* Opening the edit form on a binding of the file and confirming it *)

\* the binding nodes of the files explored
ReeditNodeCount == 7
ReeditNode(k) ==
    [name |-> <<"Mod", "X">>,
     props |-> PropertiesOf(CASE k = 2 -> <<0, 1, 0>>
                              [] k = 3 -> <<2, 0, 1>>
                              [] OTHER -> <<0, 0, 0>>),
     children |-> Some(<<CASE k = 4 -> [name |-> "spawn",
                                        args |-> <<KdlString(<<"term">>), KdlString(<<"-e">>)>>]
                           [] k = 5 -> [name |-> "focus-workspace", args |-> <<KdlInteger(1)>>]
                           [] k = 6 -> [name |-> "focus-workspace", args |-> <<KdlString(<<"1">>)>>]
                           [] k = 7 -> [name |-> "spawn-sh", args |-> <<KdlString(<<"ls", "-l">>)>>]
                           [] OTHER -> [name |-> "quit", args |-> <<>>]>>)]

ReeditFile(ks) ==
    <<[name |-> "binds", arg |-> None,
       children |-> Some([i \in 1..Len(ks) |-> ReeditNode(ks[i])])]>>

InitReedit ==
    \E ks \in SeqsUpTo(1..ReeditNodeCount, 2) \ {<<>>} :
        InitWith(Some(ReeditFile(ks)), NiriOutputs)

NextReedit ==
    \/ Free(SwitchCategory("Keybindings"))
    \/ Free(SelectNextKeybinding)
    \/ Free(StartEdit)
    \/ Free(CancelEdit)
    \/ CountedEdit(ConfirmEdit)

SpecReedit == InitReedit /\ [][NextReedit]_vars

\* C37: StartEdit on a binding of the base list followed by ConfirmEdit,
\* nothing typed in between, records a Modify of that binding whose new
\* binding has the modifiers, key, properties (repeat, cooldown,
\* allow-when-locked) and action of the binding that was opened.
C37_UnchangedEditKeepsTheBinding ==
    [][(/\ last.msg = "StartEdit"
        /\ last'.msg = "ConfirmEdit"
        /\ HasSelectedRow /\ IsSome(SelectedRow.original_index)
        /\ IsSome(edit_mode) /\ ~Unwrap(edit_mode).is_new) =>
          /\ last'.result = "done"
          /\ Len(kb_pending_changes') = Len(kb_pending_changes) + 1
          /\ LET change == kb_pending_changes'[Len(kb_pending_changes')]
                 old == SelectedRow.binding IN
             /\ change.kind = "Modify"
             /\ change.index = Unwrap(SelectedRow.original_index)
             /\ Unwrap(change.new).modifiers = old.modifiers
             /\ Unwrap(change.new).key = old.key
             /\ Unwrap(change.new).properties = old.properties
             /\ Unwrap(change.new).action = old.action
      ]_vars

----------------------------------------------------------------------------
(* The value editor on the integer fields *)

NextIntegerEdit ==
    \/ Free(SwitchCategory("Appearance"))
    \/ Free(SelectNextAppearanceSetting)
    \/ Free(SelectPrevAppearanceSetting)
    \/ CountedEdit(StartAppearanceEdit)
    \/ \E v \in EditTexts : Free(AppearanceEditInput(v))
    \/ CountedEdit(ConfirmAppearanceEdit)

SpecIntegerEdit == InitAppearance /\ [][NextIntegerEdit]_vars

\* C38: confirming the value editor with a valid integer on an integer
\* field, the four struts fields included, sets the field of the working
\* settings to that integer, records a pending change for the field and
\* closes the editor.
C38_ValidIntegerIsSet ==
    [][(/\ last'.msg = "ConfirmAppearanceEdit"
        /\ IsSome(app_edit_mode)
        /\ is_integer(Unwrap(app_edit_mode).field)
        /\ Unwrap(app_edit_mode).value.num) =>
          LET field == Unwrap(app_edit_mode).field
              n == Unwrap(app_edit_mode).value.n IN
          /\ get_field_value(settings', field).v \in {<<n>>, <<<<n>>>>}
          /\ \E i \in 1..Len(app_pending_changes') : app_pending_changes'[i].field = field
          /\ app_edit_mode' = None
      ]_vars

\* C39: when RevertPreview follows a PreviewChanges that succeeded, every
\* output has in the compositor the position the application shows for it,
\* its base position.
C39_RevertUndoesThePreview ==
    [][(/\ last.msg = "PreviewChanges" /\ last.result = "ok"
        /\ last'.msg = "RevertPreview") =>
          \A i \in 1..Len(outputs') :
              niri_position(niri_outputs', outputs'[i].name) = outputs'[i].position
      ]_vars

====
